---- MODULE Spec2Model ----
(***************************************************************************)
(* ProcessMonitor: the scan loop of the monitor thread, the per-process    *)
(* history table, the CPU/memory sampler and the threshold evaluator with  *)
(* its termination/retry policy (src/ProcessMonitor.c).                    *)
(*                                                                         *)
(* Wide strings are sequences of characters; here a path is a sequence of  *)
(* tokens (drive, separator, directory name, file name), each token        *)
(* standing for the run of characters it spells, and an executable name   *)
(* is one token.  Case folding (towlower) is ToLower.  64-bit unsigned     *)
(* FILETIME arithmetic is carried out modulo U64 (a reduced width).        *)
(* Floating-point values are exact rationals [num, den] with den > 0.      *)
(***************************************************************************)
EXTENDS Integers, Sequences, FiniteSets, TLC

\* ------------------------------------------------------------ bounds
MaxScans == 2
MaxRetryScans == 12
MaxRouteScans == 1
MaxTableScans == 3
MaxNotifyScans == 2
MaxLoads == 3
MaxClampLoads == 1
MaxExcludeLoads == 1
MaxRotations == 2
MaxUiLines == 1
MaxExternalEvents == 2
LogCap == 2
MaxWorkerLoops == 2
MaxWindows == 2
MaxEnumWindows == 12
MaxHungScans == 2
MaxCpuCalls == 3
MaxEdits == 3
MaxInstances == 2
MaxWarnings == 3
MaxSweepScans == 3
MaxBackoffScans == 5

\* ------------------------------------------------------------ constants
TERMINATE_RETRY_LIMIT == 5
DEFAULT_CPU_THRESHOLD_PERCENT == 80
DEFAULT_MEM_THRESHOLD_MB == 500
MIN_CPU_THRESHOLD == 1
MIN_MEM_THRESHOLD_MB == 1
SUSPICIOUS_BALLOON_COOLDOWN_MS == 300000
BALLOON_CLEANUP_INTERVAL_MS == 3600000
DEFAULT_MONITOR_INTERVAL_MS == 5000
DEFAULT_HANG_TIMEOUT_MS == 5000
DEFAULT_LOG_MAX_SIZE_BYTES == 1048576
DEFAULT_MAX_HUNG_WINDOWS == 500
MAX_EXCLUDE_COUNT == 32
MAX_PATH_LEN == 260
MIN_MONITOR_INTERVAL_MS == 1000
MAX_MONITOR_INTERVAL_MS == 60000
MAX_CPU_THRESHOLD == 100
MAX_MEM_THRESHOLD_MB == 65536
MIN_HANG_TIMEOUT_MS == 1000
MAX_HANG_TIMEOUT_MS == 30000
MIN_LOG_SIZE_BYTES == 1024
MAX_LOG_SIZE_BYTES == 104857600
MIN_MAX_HUNG_WINDOWS == 10
MAX_MAX_HUNG_WINDOWS == 5000
LOG_RENAME_RETRY_LIMIT == 10
JOIN_WAITS == 10
JOIN_WAIT_MS == 500
MAX_BACKOFF_WAIT_MS == 60000
CONFIG_FAIL_BALLOON_COOLDOWN_MS == 600000
WARNING_COOLDOWN_MS == 604800000
LOG_FAIL_BALLOON_COOLDOWN_MS == 3600000
BACKOFF_STEP_MS == 200
SelfPid == 3
PerfFreq == 1
U64 == 2^24
MB == 1024 * 1024

Pids == {1, 2}

\* ------------------------------------------------------------ strings
ToLower(s) ==
  CASE s = "SVCHOST.EXE" -> "svchost.exe"
    [] s = "Backup.EXE" -> "backup.exe"
    [] s = "SearchIndexer.exe" -> "searchindexer.exe"
    [] s = "SearchHost.exe" -> "searchhost.exe"
    [] s = "RuntimeBroker.exe" -> "runtimebroker.exe"
    [] s = "SecurityHealthService.exe" -> "securityhealthservice.exe"
    [] s = "SecurityHealthSystray.exe" -> "securityhealthsystray.exe"
    [] s = "SgrmBroker.exe" -> "sgrmbroker.exe"
    [] s = "StartMenuExperienceHost.exe" -> "startmenuexperiencehost.exe"
    [] s = "TextInputHost.exe" -> "textinputhost.exe"
    [] s = "Widgets.exe" -> "widgets.exe"
    [] s = "WindowsTerminal.exe" -> "windowsterminal.exe"
    [] s = "WmiPrvSE.exe" -> "wmiprvse.exe"
    [] s = "WUDFHost.exe" -> "wudfhost.exe"
    [] s = "LogonUI.exe" -> "logonui.exe"
    [] s = "LSASS.EXE" -> "lsass.exe"
    [] s = "C:" -> "c:"
    [] s = "Windows" -> "windows"
    [] s = "System32" -> "system32"
    [] s = "SysWOW64" -> "syswow64"
    [] s = "Users" -> "users"
    [] OTHER -> s

\* _wcsicmp(a, b) == 0
WcsICmpEq(a, b) == ToLower(a) = ToLower(b)

\* _wcsnicmp(a, b, n) == 0 with n = wcslen(b): the first n characters agree
\* ignoring case; a shorter string differs at its terminator.
WcsNICmpEq(a, b, n) ==
  \/ n = 0
  \/ /\ Len(a) >= n
     /\ Len(b) >= n
     /\ \A i \in 1..n : ToLower(a[i]) = ToLower(b[i])

\* g.sysDir32, g.sysDir64, g.sysDirDrivers as GetSystemDirectories builds
\* them on a 64-bit system: winDir is overwritten by the WOW64 directory
\* before the drivers directory is derived from it.
WinDir == <<"C:", "\\", "Windows">>
Wow64Dir == <<"C:", "\\", "Windows", "\\", "SysWOW64">>
sysDir32 == WinDir \o <<"\\", "System32", "\\">>
sysDir64 == Wow64Dir \o <<"\\">>
sysDirDrivers == Wow64Dir \o <<"\\", "System32", "\\", "drivers", "\\">>

IsSystemDirectory(fullPath) ==
  IF fullPath = << >> THEN FALSE
  ELSE IF WcsNICmpEq(fullPath, sysDir32, Len(sysDir32)) THEN TRUE
  ELSE IF WcsNICmpEq(fullPath, sysDir64, Len(sysDir64)) THEN TRUE
  ELSE IF WcsNICmpEq(fullPath, sysDirDrivers, Len(sysDirDrivers)) THEN TRUE
  ELSE FALSE

systemNames ==
  << "csrss.exe", "services.exe", "lsass.exe", "lsm.exe", "smss.exe", "wininit.exe",
     "winlogon.exe", "system", "system.exe", "svchost.exe", "dwm.exe",
     "conhost.exe", "spoolsv.exe", "taskhost.exe", "taskhostw.exe",
     "explorer.exe", "fontdrvhost.exe", "SearchIndexer.exe", "SearchHost.exe",
     "RuntimeBroker.exe", "SecurityHealthService.exe", "SecurityHealthSystray.exe",
     "SgrmBroker.exe", "StartMenuExperienceHost.exe", "TextInputHost.exe",
     "Widgets.exe", "WindowsTerminal.exe", "wlanext.exe",
     "WmiPrvSE.exe", "WUDFHost.exe", "dllhost.exe", "taskeng.exe",
     "audiodg.exe", "LogonUI.exe", "userinit.exe" >>

IsBuiltInExcluded(fileName, fullPath) ==
  LET nameMatch == \E i \in 1..Len(systemNames) : WcsICmpEq(fileName, systemNames[i])
  IN  IF ~nameMatch THEN FALSE
      ELSE IF fullPath = << >> THEN TRUE
      ELSE IsSystemDirectory(fullPath)

IsProcessExcluded(nameW, cfg, path) ==
  \E i \in 1..Len(cfg.excludeList) : WcsICmpEq(nameW, cfg.excludeList[i])

\* A variant of Route that does not consult the user exclusion list.
RouteWithoutExclusion(pid, exeNameW, pathBuf, cfg) ==
  IF pid = SelfPid THEN "self"
  ELSE IF IsBuiltInExcluded(exeNameW, pathBuf) THEN "system"
  ELSE "normal"

\* The dispatch of CheckProcess: which path the process entry takes.
Route(pid, exeNameW, pathBuf, cfg) ==
  IF pid = SelfPid THEN "self"
  ELSE IF IsBuiltInExcluded(exeNameW, pathBuf) THEN "system"
  ELSE IF IsProcessExcluded(exeNameW, cfg, pathBuf) THEN "excluded"
  ELSE "normal"

\* ------------------------------------------------------------ history table
\* g.history is a singly linked list; index 1 is the head.  A PROCESS_HISTORY*
\* is the index of the entry in the list at the time it was obtained (0: NULL).
NewHistory(pid, timesOk, ftKernel, ftUser, nowPerf) ==
  [ pid |-> pid,
    ftKernel |-> IF timesOk THEN ftKernel ELSE 0,
    ftUser |-> IF timesOk THEN ftUser ELSE 0,
    perfTime |-> IF timesOk THEN nowPerf ELSE 0,
    terminateAttempts |-> 0,
    terminateAttemptsHung |-> 0,
    terminateLogSent |-> 0,
    terminateLogSentHung |-> 0,
    seen |-> TRUE ]

\* The first entry of the list with this pid (0 if there is none).
FindHistory(h, pid) ==
  IF \E i \in 1..Len(h) : h[i].pid = pid
  THEN CHOOSE i \in 1..Len(h) : h[i].pid = pid /\ \A j \in 1..(i - 1) : h[j].pid # pid
  ELSE 0

\* A variant of FindOrCreateHistory that inserts without searching the list.
FindOrCreateHistoryNoSearch(h, pid, mallocOk, timesOk, ftKernel, ftUser, nowPerf) ==
  IF mallocOk
  THEN [ history |-> <<NewHistory(pid, timesOk, ftKernel, ftUser, nowPerf)>> \o h,
         hist |-> 1, created |-> TRUE ]
  ELSE [ history |-> h, hist |-> 0, created |-> FALSE ]

FindOrCreateHistory(h, pid, mallocOk, timesOk, ftKernel, ftUser, nowPerf) ==
  LET i == FindHistory(h, pid)
  IN  IF i # 0
      THEN [ history |-> [h EXCEPT ![i].seen = TRUE], hist |-> i, created |-> FALSE ]
      ELSE IF mallocOk
      THEN [ history |-> <<NewHistory(pid, timesOk, ftKernel, ftUser, nowPerf)>> \o h,
             hist |-> 1, created |-> TRUE ]
      ELSE [ history |-> h, hist |-> 0, created |-> FALSE ]

RemoveAt(h, i) == SubSeq(h, 1, i - 1) \o SubSeq(h, i + 1, Len(h))

RemoveHistory(h, pid) ==
  LET i == FindHistory(h, pid)
  IN  IF i = 0 THEN h ELSE RemoveAt(h, i)

\* A variant of CleanupHistory that clears the marks but frees nothing.
CleanupHistoryKeepAll(h) ==
  [i \in 1..Len(h) |-> [h[i] EXCEPT !.seen = FALSE]]

CleanupHistory(h) ==
  LET kept == SelectSeq(h, LAMBDA e : e.seen)
  IN  [i \in 1..Len(kept) |-> [kept[i] EXCEPT !.seen = FALSE]]

ResetAllHistory(h) == << >>

\* ProcessSnapshot, before the enumeration: every entry is marked unseen.
MarkAllUnseen(h) ==
  [i \in 1..Len(h) |-> [h[i] EXCEPT !.seen = FALSE]]

\* ------------------------------------------------------------ sampler
Rat(n, d) == [num |-> n, den |-> d]
\* cpu > threshold, cpu < 0 on exact rationals
RatGreater(c, n) == c.num > n * c.den
RatNegative(c) == c.num < 0

\* A variant of CalcCpuUsage without the test of the elapsed time.
CalcCpuUsageNoElapsedTest(e, timesOk, ftKernel, ftUser, nowPerf) ==
  IF ~timesOk THEN [cpu |-> Rat(-1, 1), hist |-> e]
  ELSE
    LET timeDelta == (((ftKernel - e.ftKernel) % U64) + ((ftUser - e.ftUser) % U64)) % U64
        ticks == nowPerf - e.perfTime
    IN  IF timeDelta = 0 THEN [cpu |-> Rat(0, 1), hist |-> e]
        ELSE [ cpu |-> Rat(timeDelta * PerfFreq, 10000 * 10 * ticks),
               hist |-> [e EXCEPT !.ftKernel = ftKernel, !.ftUser = ftUser,
                                  !.perfTime = nowPerf] ]

\* CalcCpuUsage(hProcess, hist) with hProcess non-NULL: e is *hist, the other
\* arguments are what GetProcessTimes and QueryPerformanceCounter return.
\* The result is the returned value and *hist afterwards.
CalcCpuUsage(e, timesOk, ftKernel, ftUser, nowPerf) ==
  IF ~timesOk THEN [cpu |-> Rat(-1, 1), hist |-> e]
  ELSE
    LET timeDelta == (((ftKernel - e.ftKernel) % U64) + ((ftUser - e.ftUser) % U64)) % U64
        ticks == nowPerf - e.perfTime
    IN  IF timeDelta = 0 THEN [cpu |-> Rat(0, 1), hist |-> e]
        ELSE IF ticks <= 0 THEN [cpu |-> Rat(0, 1), hist |-> e]
        ELSE [ cpu |-> Rat(timeDelta * PerfFreq, 10000 * 10 * ticks),
               hist |-> [e EXCEPT !.ftKernel = ftKernel, !.ftUser = ftUser,
                                  !.perfTime = nowPerf] ]

\* CalcAverageCpuUsage: total CPU time over the age of the process, in percent.
CalcAverageCpuUsage(timesOk, totalTime, age) ==
  IF ~timesOk THEN Rat(-1, 1)
  ELSE IF age = 0 THEN Rat(0, 1)
  ELSE Rat(totalTime * 100, age)

MeasureProcessResources(e, timesOk, ftKernel, ftUser, nowPerf, memOk, workingSetSize) ==
  LET c == CalcCpuUsage(e, timesOk, ftKernel, ftUser, nowPerf)
  IN  [ cpu |-> IF RatNegative(c.cpu) THEN Rat(0, 1) ELSE c.cpu,
        memMB |-> IF memOk THEN workingSetSize \div MB ELSE 0,
        memValid |-> memOk,
        hist |-> c.hist ]

\* A variant of FormatReason that takes a value equal to the threshold for a breach.
FormatReasonInclusive(cpu, cpuThreshold, memValid, memMB, memThreshold, hung) ==
  IF ~(cpu.num < cpuThreshold * cpu.den) THEN "High CPU"
  ELSE IF memValid /\ memMB >= memThreshold THEN "High memory"
  ELSE IF hung THEN "Window not responding"
  ELSE ""

\* FormatReason: the reason text stands for its leading words.
FormatReason(cpu, cpuThreshold, memValid, memMB, memThreshold, hung) ==
  IF RatGreater(cpu, cpuThreshold) THEN "High CPU"
  ELSE IF memValid /\ memMB > memThreshold THEN "High memory"
  ELSE IF hung THEN "Window not responding"
  ELSE ""

IsProcessHung(pid, hungList) == \E i \in 1..Len(hungList) : hungList[i] = pid

\* ------------------------------------------------------------ termination
\* TryTerminateProcess(pid, exeName, &attempts, &logSent).  outcome is what
\* OpenProcess(PROCESS_TERMINATE) and TerminateProcess do.  log lists the
\* lines written, in order.  (The one-time permission notice shown on
\* ERROR_ACCESS_DENIED belongs to the notification surface.)
TryTerminateProcess(attempts, logSent, outcome) ==
  IF outcome = "open_failed"
  THEN [ ok |-> FALSE, attempts |-> attempts, logSent |-> logSent,
         log |-> <<"Failed to open process">> ]
  ELSE IF outcome = "terminated"
  THEN [ ok |-> TRUE, attempts |-> attempts, logSent |-> logSent,
         log |-> <<"Successfully terminated process">> ]
  ELSE LET a == attempts + 1
           exhausted == logSent = 0 /\ a >= TERMINATE_RETRY_LIMIT
       IN  [ ok |-> FALSE, attempts |-> a,
             logSent |-> IF exhausted THEN 1 ELSE logSent,
             log |-> IF exhausted
                     THEN <<"Failed to terminate process", "termination attempts exhausted">>
                     ELSE <<"Failed to terminate process">> ]

\* LogEvent(isSuspicious, exeName, pid, reason, ...): the line written, and
\* the balloons shown (for a normal process, when notifyOnTermination is set).
LogEvent(isSuspicious, notifyOnTermination) ==
  IF isSuspicious
  THEN [ log |-> <<"SUSPICIOUS SYSTEM PROCESS">>, balloons |-> << >> ]
  ELSE [ log |-> <<"Terminated process">>,
         balloons |-> IF notifyOnTermination THEN <<"Process Terminated">> ELSE << >> ]

\* Whether CheckProcessHungAndTerminate stores the local counters back into
\* *hist after TryTerminateProcess returned ok.
\* A variant that stores them back whatever TryTerminateProcess returned.
HungWriteBackAlways(ok, hist) == hist # 0

HungWriteBack(ok, hist) == ~ok /\ hist # 0

\* CheckProcessHungAndTerminate(hist, pid, exeName, hungList) on the list h.
\* stale: *hist was read or written after RemoveHistory freed it.
CheckProcessHungAndTerminate(h, hist, pid, hungList, outcome) ==
  LET none == [ history |-> h, kind |-> "hang", cpu |-> Rat(0, 1), memValid |-> FALSE,
                memMB |-> 0, reason |-> "", attempted |-> FALSE, outcome |-> "none",
                stale |-> FALSE, log |-> << >> ]
  IN
  IF ~IsProcessHung(pid, hungList)
  THEN [none EXCEPT !.history =
          IF hist # 0 THEN [h EXCEPT ![hist].terminateAttemptsHung = 0] ELSE h]
  ELSE
    LET attempts == IF hist # 0 THEN h[hist].terminateAttemptsHung ELSE 0
        logSent == IF hist # 0 THEN h[hist].terminateLogSentHung ELSE 0
    IN
    IF attempts >= TERMINATE_RETRY_LIMIT
    THEN IF logSent = 0 /\ hist # 0
         THEN [none EXCEPT !.reason = "Window not responding",
                           !.log = <<"hung but termination attempts exhausted">>,
                           !.history = [h EXCEPT ![hist].terminateLogSentHung = 1]]
         ELSE [none EXCEPT !.reason = "Window not responding"]
    ELSE
      LET t == TryTerminateProcess(attempts, logSent, outcome)
          freed == t.ok /\ hist # 0 /\ FindHistory(h, pid) = hist
          h1 == IF t.ok THEN RemoveHistory(h, pid) ELSE h
          back == HungWriteBack(t.ok, hist)
      IN  [none EXCEPT
             !.reason = "Window not responding",
             !.attempted = TRUE,
             !.outcome = outcome,
             !.log = t.log,
             !.stale = (back /\ freed),
             !.history =
                IF back /\ ~freed
                THEN [h1 EXCEPT ![hist].terminateAttemptsHung = t.attempts,
                                ![hist].terminateLogSentHung = t.logSent]
                ELSE h1]

\* CheckProcessResourcesAndTerminate(hist, hProcess, pid, exeName, path, cfg,
\* hungList) on the list h, hist non-NULL.  q holds what the process queries
\* made during the call return.
CheckProcessResourcesAndTerminate(h, hist, pid, cfg, hungList, q, nowPerf) ==
  LET m == MeasureProcessResources(h[hist], q.timesOk, q.ftKernel, q.ftUser, nowPerf,
                                   q.memOk, q.workingSetSize)
      h0 == [h EXCEPT ![hist] = m.hist]
      hung == IsProcessHung(pid, hungList)
      reason == FormatReason(m.cpu, cfg.cpuThresholdPercent, m.memValid, m.memMB,
                             cfg.memThresholdMb, hung)
      abnormal == reason # ""
      base == [ history |-> h0, kind |-> "resource", cpu |-> m.cpu, memValid |-> m.memValid,
                memMB |-> m.memMB, reason |-> reason, attempted |-> FALSE,
                outcome |-> "none", stale |-> FALSE, log |-> << >> ]
  IN
  IF abnormal
  THEN IF h0[hist].terminateAttempts >= TERMINATE_RETRY_LIMIT
       THEN IF h0[hist].terminateLogSent = 0
            THEN [base EXCEPT !.log = <<"exceeds threshold but termination attempts exhausted">>,
                              !.history = [h0 EXCEPT ![hist].terminateLogSent = 1]]
            ELSE base
       ELSE
         LET t == TryTerminateProcess(h0[hist].terminateAttempts, h0[hist].terminateLogSent,
                                      q.outcome)
             h1 == [h0 EXCEPT ![hist].terminateAttempts = t.attempts,
                              ![hist].terminateLogSent = t.logSent]
         IN  [base EXCEPT
                !.attempted = TRUE,
                !.outcome = q.outcome,
                !.log = LogEvent(FALSE, cfg.notifyOnTermination).log \o t.log,
                   !.history = IF t.ok THEN RemoveHistory(h1, pid) ELSE h1]
  ELSE [base EXCEPT !.history = [h0 EXCEPT ![hist].terminateAttempts = 0,
                                          ![hist].terminateLogSent = 0]]

\* A variant of CheckNormalProcess that leaves a process it cannot open alone.
CheckNormalProcessSkipUnopened(h, pid, cfg, hungList, q, nowPerf) ==
  LET f == FindOrCreateHistory(h, pid, q.mallocOk, q.createTimesOk, q.createKernel,
                               q.createUser, nowPerf)
      found == IF f.hist = 0 THEN << >> ELSE <<f.history[f.hist]>>
      r == IF f.hist = 0 \/ ~q.queryOpen
           THEN CheckProcessHungAndTerminate(f.history, f.hist, pid, << >>, q.outcome)
           ELSE CheckProcessResourcesAndTerminate(f.history, f.hist, pid, cfg, hungList,
                                                  q, nowPerf)
  IN  r @@ [found |-> found, created |-> f.created, hung |-> IsProcessHung(pid, hungList)]

\* CheckNormalProcess(pe, cfg, hungList).  found: the entry FindOrCreateHistory
\* returned, as returned (<< >> for NULL).
CheckNormalProcess(h, pid, cfg, hungList, q, nowPerf) ==
  LET f == FindOrCreateHistory(h, pid, q.mallocOk, q.createTimesOk, q.createKernel,
                               q.createUser, nowPerf)
      found == IF f.hist = 0 THEN << >> ELSE <<f.history[f.hist]>>
      r == IF f.hist = 0
           THEN CheckProcessHungAndTerminate(f.history, 0, pid, hungList, q.outcome)
           ELSE IF ~q.queryOpen
           THEN CheckProcessHungAndTerminate(f.history, f.hist, pid, hungList, q.outcome)
           ELSE CheckProcessResourcesAndTerminate(f.history, f.hist, pid, cfg, hungList,
                                                  q, nowPerf)
  IN  r @@ [found |-> found, created |-> f.created, hung |-> IsProcessHung(pid, hungList)]

\* A variant of SystemProcessAction that terminates the suspicious process.
SystemProcessActionTerminate(reason) ==
  [ attempted |-> reason # "",
    outcome |-> IF reason # "" THEN "terminated" ELSE "none",
    log |-> IF reason # "" THEN <<"SUSPICIOUS SYSTEM PROCESS">> ELSE << >> ]

\* What CheckSystemProcess does about a process it found suspicious (reason
\* not empty) or not: the log event, and no call of TryTerminateProcess.
SystemProcessAction(reason) ==
  [ attempted |-> FALSE,
    outcome |-> "none",
    log |-> IF reason # "" THEN <<"SUSPICIOUS SYSTEM PROCESS">> ELSE << >> ]

\* CheckSystemProcess(pe, cfg, hungList).
CheckSystemProcess(h, pid, cfg, hungList, q, nowPerf) ==
  LET base == [ history |-> h, kind |-> "system", cpu |-> Rat(0, 1), memValid |-> FALSE,
                memMB |-> 0, reason |-> "", attempted |-> FALSE, outcome |-> "none",
                stale |-> FALSE, log |-> << >>,
                found |-> << >>, created |-> FALSE,
                hung |-> IsProcessHung(pid, hungList) ]
  IN
  IF IsProcessHung(pid, hungList)
  THEN LET act == SystemProcessAction("Window not responding")
       IN  [base EXCEPT !.reason = "Window not responding",
                        !.attempted = act.attempted, !.outcome = act.outcome,
                        !.log = act.log]
  ELSE IF ~q.queryOpen THEN base
  ELSE
    LET f == FindOrCreateHistory(h, pid, q.mallocOk, q.createTimesOk, q.createKernel,
                                 q.createUser, nowPerf)
        c == IF f.hist # 0
             THEN CalcCpuUsage(f.history[f.hist], q.timesOk, q.ftKernel, q.ftUser, nowPerf)
             ELSE [cpu |-> Rat(0, 1)]
        instCpu == IF RatNegative(c.cpu) THEN Rat(0, 1) ELSE c.cpu
        h1 == IF f.hist # 0 THEN [f.history EXCEPT ![f.hist] = c.hist] ELSE f.history
        memValid == q.memOk
        memMB == IF q.memOk THEN q.workingSetSize \div MB ELSE 0
        avgCpu == CalcAverageCpuUsage(q.avgTimesOk, q.avgTotal, q.avgAge)
        cpuValid == ~RatNegative(avgCpu)
        reason == IF RatGreater(instCpu, cfg.cpuThresholdPercent)
                  THEN "High instantaneous CPU"
                  ELSE IF cpuValid /\ RatGreater(avgCpu, cfg.cpuThresholdPercent)
                  THEN "High average CPU"
                  ELSE IF memValid /\ memMB > cfg.memThresholdMb
                  THEN "High memory"
                  ELSE ""
        act == SystemProcessAction(reason)
    IN  [base EXCEPT !.history = h1,
                     !.found = IF f.hist = 0 THEN << >> ELSE <<f.history[f.hist]>>,
                     !.created = f.created,
                     !.cpu = instCpu, !.memValid = memValid, !.memMB = memMB,
                     !.reason = reason,
                     !.attempted = act.attempted, !.outcome = act.outcome,
                     !.log = act.log]

\* ------------------------------------------------------------ balloon cooldown
\* g.balloonCooldown is a sequence of [processName, lastTick], head first.
\* The index of the first entry for the name (_wcsicmp), 0 if none.
FindCooldown(cache, processName) ==
  IF \E i \in 1..Len(cache) : WcsICmpEq(cache[i].processName, processName)
  THEN CHOOSE i \in 1..Len(cache) :
         /\ WcsICmpEq(cache[i].processName, processName)
         /\ \A j \in 1..(i - 1) : ~WcsICmpEq(cache[j].processName, processName)
  ELSE 0

\* A variant of ShouldShowBalloonForProcess that compares names exactly.
ShouldShowBalloonForProcessExact(cache, processName, nowTick, mallocOk) ==
  IF processName = "" THEN [ allow |-> FALSE, cache |-> cache ]
  ELSE IF \E i \in 1..Len(cache) : cache[i].processName = processName
  THEN LET i == CHOOSE k \in 1..Len(cache) : cache[k].processName = processName
       IN  IF nowTick - cache[i].lastTick < SUSPICIOUS_BALLOON_COOLDOWN_MS
           THEN [ allow |-> FALSE, cache |-> cache ]
           ELSE [ allow |-> TRUE, cache |-> [cache EXCEPT ![i].lastTick = nowTick] ]
  ELSE [ allow |-> TRUE,
         cache |-> IF mallocOk
                   THEN <<[processName |-> processName, lastTick |-> nowTick]>> \o cache
                   ELSE cache ]

\* ShouldShowBalloonForProcess(processName) at tick nowTick; mallocOk: the
\* allocation of a new node succeeds.
ShouldShowBalloonForProcess(cache, processName, nowTick, mallocOk) ==
  IF processName = "" THEN [ allow |-> FALSE, cache |-> cache ]
  ELSE LET i == FindCooldown(cache, processName)
       IN  IF i # 0
           THEN IF nowTick - cache[i].lastTick < SUSPICIOUS_BALLOON_COOLDOWN_MS
                THEN [ allow |-> FALSE, cache |-> cache ]
                ELSE [ allow |-> TRUE, cache |-> [cache EXCEPT ![i].lastTick = nowTick] ]
           ELSE [ allow |-> TRUE,
                  cache |-> IF mallocOk
                            THEN <<[processName |-> processName, lastTick |-> nowTick]>> \o cache
                            ELSE cache ]

\* A variant of PeriodicBalloonCleanup that empties the cache when it runs.
PeriodicBalloonCleanupAll(cache, lastCleanup, nowTick) ==
  IF nowTick - lastCleanup < BALLOON_CLEANUP_INTERVAL_MS
  THEN [ cache |-> cache, lastCleanup |-> lastCleanup ]
  ELSE [ cache |-> << >>, lastCleanup |-> nowTick ]

\* PeriodicBalloonCleanup() at tick nowTick.
PeriodicBalloonCleanup(cache, lastCleanup, nowTick) ==
  IF nowTick - lastCleanup < BALLOON_CLEANUP_INTERVAL_MS
  THEN [ cache |-> cache, lastCleanup |-> lastCleanup ]
  ELSE [ cache |-> SelectSeq(cache,
                     LAMBDA e : ~(nowTick - e.lastTick > SUSPICIOUS_BALLOON_COOLDOWN_MS)),
         lastCleanup |-> nowTick ]

\* ------------------------------------------------------------ environment
\* What the collaborators (process enumeration, process query, window
\* enumeration, config source) may answer.
NameSamples == { "svchost.exe", "SVCHOST.EXE", "notepad.exe", "Backup.EXE" }
PathSamples ==
  { << >>,
    <<"c:", "\\", "windows", "\\", "system32", "\\", "svchost.exe">>,
    <<"C:", "\\", "Windows", "\\", "SysWOW64", "\\", "svchost.exe">>,
    <<"C:", "\\", "Windows", "\\", "System32">>,
    <<"C:", "\\", "Users", "\\", "svchost.exe">> }
UserPath == <<"C:", "\\", "Users", "\\", "notepad.exe">>
System32Path == <<"C:", "\\", "Windows", "\\", "System32", "\\", "svchost.exe">>

DefaultConfig ==
  [ cpuThresholdPercent |-> DEFAULT_CPU_THRESHOLD_PERCENT,
    memThresholdMb |-> DEFAULT_MEM_THRESHOLD_MB,
    excludeList |-> <<"backup.exe">>,
    monitorIntervalMs |-> DEFAULT_MONITOR_INTERVAL_MS,
    notifyOnTermination |-> FALSE ]
MinConfig ==
  [ cpuThresholdPercent |-> MIN_CPU_THRESHOLD,
    memThresholdMb |-> MIN_MEM_THRESHOLD_MB,
    excludeList |-> << >>,
    monitorIntervalMs |-> MIN_MONITOR_INTERVAL_MS,
    notifyOnTermination |-> TRUE ]
MaxIntervalConfig == [DefaultConfig EXCEPT !.monitorIntervalMs = MAX_MONITOR_INTERVAL_MS]

\* One process and the monitor itself, under every sample of name class, CPU
\* time, memory, hang state and termination outcome.
FullEnv ==
  [ maxScans |-> MaxScans, pids |-> {1, SelfPid}, configs |-> {DefaultConfig, MinConfig},
    images |-> { <<"svchost.exe", System32Path>>, <<"notepad.exe", UserPath>>,
                 <<"Backup.EXE", UserPath>> },
    times |-> { <<0, 0>>, <<100000, 0>>, <<8000000, 0>>, <<8000000, 100000>> },
    timesOks |-> BOOLEAN,
    workingSets |-> { 1 * MB, 2 * MB - 1, 500 * MB, 501 * MB }, memOks |-> BOOLEAN,
    avgs |-> { <<FALSE, 0, 0>>, <<TRUE, 0, 0>>, <<TRUE, 9, 10>> },
    outcomes |-> { "open_failed", "terminate_failed", "terminated" },
    mallocs |-> BOOLEAN, queryOpens |-> BOOLEAN,
    snapshots |-> {"ok"}, hungSets |-> SUBSET {1},
    startTicks |-> {DEFAULT_MONITOR_INTERVAL_MS}, intervals |-> {DEFAULT_MONITOR_INTERVAL_MS},
    balloonMallocs |-> {TRUE} ]

\* The history table over two processes and the monitor itself; CPU times
\* stay at zero, a process is abnormal by its memory, the first also by a
\* hung window.
TableEnv ==
  [ maxScans |-> MaxTableScans, pids |-> Pids \cup {SelfPid}, configs |-> {DefaultConfig},
    images |-> { <<"svchost.exe", System32Path>>, <<"notepad.exe", UserPath>> },
    times |-> { <<0, 0>> }, timesOks |-> {TRUE},
    workingSets |-> { 501 * MB }, memOks |-> BOOLEAN,
    avgs |-> { <<TRUE, 0, 0>> },
    outcomes |-> { "terminate_failed", "terminated" },
    mallocs |-> BOOLEAN, queryOpens |-> {TRUE},
    snapshots |-> {"ok", "failed", "first_failed"}, hungSets |-> { {}, {1} },
    startTicks |-> {DEFAULT_MONITOR_INTERVAL_MS}, intervals |-> {DEFAULT_MONITOR_INTERVAL_MS},
    balloonMallocs |-> {TRUE} ]

\* One ordinary process whose termination never succeeds: the narrow
\* environment in which the retry policy is followed over many scans.  The
\* process may fail to open for query and its history entry may fail to be
\* allocated.
RetryEnv ==
  [ maxScans |-> MaxRetryScans, pids |-> {1}, configs |-> {DefaultConfig},
    images |-> { <<"notepad.exe", UserPath>> },
    times |-> { <<0, 0>> }, timesOks |-> {TRUE},
    workingSets |-> { 1 * MB, 501 * MB }, memOks |-> {TRUE},
    avgs |-> { <<TRUE, 0, 0>> }, outcomes |-> { "open_failed", "terminate_failed" },
    mallocs |-> BOOLEAN, queryOpens |-> BOOLEAN, snapshots |-> {"ok"},
    hungSets |-> SUBSET {1},
    startTicks |-> {DEFAULT_MONITOR_INTERVAL_MS}, intervals |-> {DEFAULT_MONITOR_INTERVAL_MS},
    balloonMallocs |-> {TRUE} ]

\* Every sample name under every sample path, each queried once.
RouteEnv ==
  [ maxScans |-> MaxRouteScans, pids |-> {1, SelfPid}, configs |-> {DefaultConfig, MinConfig},
    images |-> NameSamples \X PathSamples,
    times |-> { <<0, 0>> }, timesOks |-> {TRUE},
    workingSets |-> { 501 * MB }, memOks |-> {TRUE},
    avgs |-> { <<TRUE, 0, 0>> }, outcomes |-> { "terminate_failed" },
    mallocs |-> {TRUE}, queryOpens |-> {TRUE}, snapshots |-> {"ok"},
    hungSets |-> SUBSET {1},
    startTicks |-> {DEFAULT_MONITOR_INTERVAL_MS}, intervals |-> {DEFAULT_MONITOR_INTERVAL_MS},
    balloonMallocs |-> {TRUE} ]

\* System processes under two spellings of one name and a second name, found
\* suspicious by memory or a hung window (or not evaluated, when they cannot
\* be opened), over waits just short of the balloon cooldown, equal to it and
\* as long as the cleanup interval.
NotifyEnv ==
  [ maxScans |-> MaxNotifyScans, pids |-> Pids, configs |-> {DefaultConfig},
    images |-> { <<"svchost.exe", System32Path>>, <<"SVCHOST.EXE", System32Path>>,
                 <<"LSASS.EXE", System32Path>> },
    times |-> { <<0, 0>> }, timesOks |-> {TRUE},
    workingSets |-> { 501 * MB }, memOks |-> {TRUE},
    avgs |-> { <<TRUE, 0, 0>> }, outcomes |-> { "terminate_failed" },
    mallocs |-> {TRUE}, queryOpens |-> BOOLEAN, snapshots |-> {"ok"},
    hungSets |-> { {}, {1} },
    startTicks |-> {DEFAULT_MONITOR_INTERVAL_MS},
    intervals |-> { SUSPICIOUS_BALLOON_COOLDOWN_MS - 1, SUSPICIOUS_BALLOON_COOLDOWN_MS,
                    BALLOON_CLEANUP_INTERVAL_MS },
    balloonMallocs |-> BOOLEAN ]

\* One system process under two names, suspicious by memory in every scan,
\* over waits that bring a sweep upon an entry younger than the cooldown
\* (3300000 + 299999 reaches the cleanup interval from the start tick), upon
\* one exactly as old as the cooldown, and upon older ones.
SweepEnv ==
  [ maxScans |-> MaxSweepScans, pids |-> {1}, configs |-> {DefaultConfig},
    images |-> { <<"svchost.exe", System32Path>>, <<"LSASS.EXE", System32Path>> },
    times |-> { <<0, 0>> }, timesOks |-> {TRUE},
    workingSets |-> { 501 * MB }, memOks |-> {TRUE},
    avgs |-> { <<TRUE, 0, 0>> }, outcomes |-> { "terminate_failed" },
    mallocs |-> {TRUE}, queryOpens |-> {TRUE}, snapshots |-> {"ok"},
    hungSets |-> { {} },
    startTicks |-> {DEFAULT_MONITOR_INTERVAL_MS},
    intervals |-> { BALLOON_CLEANUP_INTERVAL_MS - SUSPICIOUS_BALLOON_COOLDOWN_MS,
                    SUSPICIOUS_BALLOON_COOLDOWN_MS - 1, SUSPICIOUS_BALLOON_COOLDOWN_MS },
    balloonMallocs |-> {TRUE} ]

\* One idle process under every outcome of the process enumeration, with the
\* shortest, the default and the longest monitor interval.
BackoffEnv ==
  [ maxScans |-> MaxBackoffScans, pids |-> {1},
    configs |-> {DefaultConfig, MinConfig, MaxIntervalConfig},
    images |-> { <<"notepad.exe", UserPath>> },
    times |-> { <<0, 0>> }, timesOks |-> {TRUE},
    workingSets |-> { 1 * MB }, memOks |-> {TRUE},
    avgs |-> { <<TRUE, 0, 0>> }, outcomes |-> { "terminate_failed" },
    mallocs |-> {TRUE}, queryOpens |-> {TRUE},
    snapshots |-> {"ok", "failed", "first_failed"}, hungSets |-> { {} },
    startTicks |-> {DEFAULT_MONITOR_INTERVAL_MS}, intervals |-> {DEFAULT_MONITOR_INTERVAL_MS},
    balloonMallocs |-> {TRUE} ]

\* ------------------------------------------------------------ state
VARIABLES
  history,        \* g.history
  cfg,            \* g.config, as the worker copies it
  systemResumed,  \* g.systemResumed
  monitorActive,  \* g.monitorActive: 1 while monitoring is switched on
  consecutiveSnapshotFailures,  \* static of ProcessSnapshot (failure branch)
  backoff,        \* the last ProcessSnapshot: its backoff wait (ms), the lines it logged,
                  \* and the failed enumerations since the last one that succeeded
  now,            \* QueryPerformanceCounter, one tick per loop iteration
  pc,             \* position of the monitor thread: "loop", "scan", "dispatch"
  queue,          \* entries of the snapshot not yet enumerated (pids)
  hungList,       \* the hung list of this scan
  cur,            \* the entry CheckProcess is dispatching
  last,           \* what the last evaluation of a process did
  enumerated,     \* pids of the snapshot of the current or last scan
  lastScan,       \* how the last ProcessSnapshot ended
  gone,           \* pids whose entry a sweep removed, no entry found or created since
  run,            \* per pid and counter: failed attempts and exhaustion lines since the counter's last reset
  tick,           \* GetTickCount64 (ms), constant within one loop iteration
  balloonCooldown,         \* g.balloonCooldown
  lastBalloonCleanupTick,  \* g.lastBalloonCleanupTick
  allowedAt,      \* pairs <<name in lower case, tick>>: the last request answered allow
  configFile,     \* config.ini as the last load or poll found it
  gConfig,        \* g.config
  newConfig,      \* LoadConfig: newConfig, newExcludeCount, newExcludeList and the lines logged
  localConfig,    \* MonitorThread: localConfig
  csConfig,       \* g.csConfig: "none" or its owner
  loadPc,         \* position of the thread that loads and copies the configuration
  loads,          \* polls of HandleConfigReload so far
  configLoadFailed,  \* g.configLoadFailed
  loadedConfigs,  \* the settings every load so far built
  files,          \* monitor.log, monitor.log.old, monitor.log.tmp
  hLogFile,       \* g.hLogFile is a valid handle
  ext,            \* how another program holds each of the three files
  csLog,          \* g.csLog: "none" or its owner
  rotPc,          \* position of the worker in RotateLogIfNeeded ("idle": outside)
  retry,          \* RotateLogIfNeeded: retry
  rotations,      \* calls of RotateLogIfNeeded so far
  epoch,          \* times the live log was emptied, plus one
  rotation,       \* what the last rotation that found the log oversized did
  unlockedOps,    \* operations on the log file or handle made without csLog
  uiLines,        \* lines the window thread logged
  extEvents,      \* files other programs opened so far
  programRunning, \* g.programRunning
  stopEvent,      \* g.hStopEvent is signalled
  wpc,            \* position of MonitorThread in its loop ("off": not followed)
  wIter,          \* iterations of the loop begun
  wRetry,         \* RotateLogIfNeeded: retry
  wWindows,       \* windows EnumWindows has yet to hand to the callback
  wWait,          \* ProcessSnapshot: wait
  wElapsed,       \* ProcessSnapshot: elapsed
  blocked,        \* ms the last step slept or waited, if the stop signal was set
  wSleep,         \* ms left of the Sleep the worker is in (0: not sleeping)
  joinLeft,       \* Cleanup: ms left of its waits for the monitor thread
  released,       \* Cleanup went on to close, free and delete the shared state
                  \* when it began (0 otherwise)
  hpc,            \* BuildHungProcessList: "idle" or "enum" (inside EnumWindows)
  hLeft,          \* windows EnumWindows has yet to hand to EnumHungWindowsProc
  hParams,        \* ENUM_HUNG_PARAMS: head, maxWindows, scannedCount
  hProbes,        \* calls of IsWindowHungFast in this scan
  hCapWarnings,   \* cap warnings logged in this scan
  hScans,         \* calls of BuildHungProcessList so far
  cEntry,         \* CalcCpuUsage: *hist (ftKernel, ftUser, perfTime)
  cBefore,        \* *hist as the last call found it
  cSample,        \* what GetProcessTimes and QueryPerformanceCounter answered last
                  \* about the process holding the pid (times 0 before its first sample)
  cResult,        \* the value the last call returned
  cCalls,         \* calls of CalcCpuUsage on the entry so far (-1: not followed)
  cInstance,      \* which process holds the pid: 1 for the first, 2 for the next
  cOwner,         \* the process whose times *hist holds
  rFile,          \* config.ini on disk: its last-write time and its keys
  rLastWrite,     \* g.configLastWrite
  rActive,        \* the numeric settings of g.config
  rpc,            \* HandleConfigReload: "poll", "load", "update" ("off": not followed)
  rEdits,         \* times the user saved config.ini so far
  rLastCheck,     \* *lastConfigCheck, as the parity of the polls completed
  uptime,         \* GetTickCount64(): ms since the system started
  lastWarningTick,  \* g.lastClampWarningTick, g.lastExcludeWarningTick,
                  \* g.lastLogFailWarningTick, *lastConfigFailBalloon, by warning
  warned          \* by warning: its occurrences in this run, whether the first raised
                  \* a balloon, when the last balloon was raised (-1: never), and the
                  \* tick and result of the last occurrence

notifyVars == << tick, balloonCooldown, lastBalloonCleanupTick, allowedAt >>
scanVars == << history, cfg, systemResumed, monitorActive, consecutiveSnapshotFailures, backoff,
               now, pc, queue, hungList, cur, last, enumerated, lastScan, gone, run,
               notifyVars >>
configVars == << configFile, gConfig, newConfig, localConfig, csConfig, loadPc, loads,
                 configLoadFailed, loadedConfigs >>
logVars == << files, hLogFile, ext, csLog, rotPc, retry, rotations, epoch, rotation,
              unlockedOps, uiLines, extEvents, programRunning >>
logFileVars == << files, hLogFile, ext, csLog, rotPc, retry, rotations, epoch, rotation,
                  unlockedOps, uiLines, extEvents >>
stopVars == << stopEvent, wpc, wIter, wRetry, wWindows, wWait, wElapsed, blocked,
              wSleep, joinLeft, released >>
hungVars == << hpc, hLeft, hParams, hProbes, hCapWarnings, hScans >>
cpuVars == << cEntry, cBefore, cSample, cResult, cCalls, cInstance, cOwner >>
reloadVars == << rFile, rLastWrite, rActive, rpc, rEdits, rLastCheck >>
warnVars == << uptime, lastWarningTick, warned >>
auxVars == << stopVars, hungVars, cpuVars, reloadVars, warnVars >>
vars == << scanVars, configVars, logVars, auxVars >>

\* No request to ShouldShowBalloonForProcess.  asked: a request was made;
\* prevAllowed: the tick of the last allowed request for the name (-1: none);
\* recBefore, recAfter: the tick the cache holds for the name (-1: no entry).
NoNotify ==
  [ asked |-> FALSE, name |-> "", allow |-> FALSE, prevAllowed |-> -1,
    recBefore |-> -1, recAfter |-> -1 ]
AllowedTick(a, name) ==
  IF \E e \in a : e[1] = ToLower(name)
  THEN (CHOOSE e \in a : e[1] = ToLower(name))[2]
  ELSE -1
CacheTick(cache, name) ==
  IF FindCooldown(cache, name) = 0 THEN -1 ELSE cache[FindCooldown(cache, name)].lastTick
NoCur == [pid |-> 0, name |-> "", path |-> << >>, route |-> "none"]
NoLast ==
  [ pid |-> 0, route |-> "none", kind |-> "none", found |-> << >>, created |-> FALSE,
    cpu |-> Rat(0, 1), memValid |-> FALSE, memMB |-> 0, hung |-> FALSE, reason |-> "",
    attempted |-> FALSE, outcome |-> "none", stale |-> FALSE, log |-> << >>,
    wasGone |-> FALSE, queryOpen |-> FALSE, cpuValid |-> FALSE, notify |-> NoNotify ]
ZeroRun == [resTries |-> 0, resLogs |-> 0, hangTries |-> 0, hangLogs |-> 0]

Min(a, b) == IF a < b THEN a ELSE b

\* ProcessSnapshot, failure branch: the wait before the next enumeration.
BackoffWait(failures, monitorIntervalMs) ==
  LET shift == Min(failures - 1, 10)
      wait == IF failures > 1 THEN monitorIntervalMs * 2^shift ELSE monitorIntervalMs
  IN  IF wait > MAX_BACKOFF_WAIT_MS THEN MAX_BACKOFF_WAIT_MS ELSE wait

\* ProcessSnapshot, failure branch: the lines logged.
SnapshotFailureLog(failures) ==
  IF failures = 1 THEN << "CreateToolhelp32Snapshot failed" >>
  ELSE IF failures > 3 THEN << "Snapshot has failed consecutively" >>
  ELSE << >>

NoBackoff == [wait |-> 0, log |-> << >>, streak |-> 0]

\* ProcessSnapshot, success branch: the block's own static
\* consecutiveSnapshotFailures.  It is a second variable, initialised to 0
\* and assigned only inside its own test for > 0, so it is 0 whenever read.
consecutiveSnapshotFailuresOnSuccess == 0

\* ProcessSnapshot, success branch: the line logged.
SnapshotSuccessLog(failures) ==
  IF failures > 0 THEN << "Snapshot succeeded after failures" >> ELSE << >>

\* ProcessSnapshot, success branch: no wait, the streak of failed
\* enumerations is over.
SucceededBackoff ==
  [NoBackoff EXCEPT !.log = SnapshotSuccessLog(consecutiveSnapshotFailuresOnSuccess)]

RECURSIVE Ascending(_)
Ascending(S) ==
  IF S = {} THEN << >>
  ELSE LET m == CHOOSE x \in S : \A y \in S : x <= y
       IN  <<m>> \o Ascending(S \ {m})

HasHistory(h, pid) == FindHistory(h, pid) # 0

ExhaustionLines ==
  { "termination attempts exhausted", "hung but termination attempts exhausted",
    "exceeds threshold but termination attempts exhausted" }
CountExhaustion(log) == Cardinality({i \in 1..Len(log) : log[i] \in ExhaustionLines})

\* run after entries were freed: a pid without an entry has no run.
RunAfterRemoval(r, h) == [p \in DOMAIN r |-> IF HasHistory(h, p) THEN r[p] ELSE ZeroRun]

\* run[pid] after an evaluation with result r.
RunAfterCheck(old, r, pid) ==
  LET base == IF r.created THEN ZeroRun ELSE old
  IN  IF ~HasHistory(r.history, pid) THEN ZeroRun
      ELSE IF r.kind = "resource"
      THEN [base EXCEPT
              !.resTries = IF r.attempted THEN Min(base.resTries + 1, TERMINATE_RETRY_LIMIT + 1)
                           ELSE IF r.reason = "" THEN 0 ELSE base.resTries,
              !.resLogs = IF r.reason = "" THEN 0
                          ELSE Min(base.resLogs + CountExhaustion(r.log), 2)]
      ELSE IF r.kind = "hang"
      THEN [base EXCEPT
              !.hangTries = IF r.attempted THEN Min(base.hangTries + 1, TERMINATE_RETRY_LIMIT + 1)
                            ELSE IF ~r.hung THEN 0 ELSE base.hangTries,
              !.hangLogs = IF ~r.hung THEN 0
                           ELSE Min(base.hangLogs + CountExhaustion(r.log), 2)]
      ELSE base

\* ------------------------------------------------------------ configuration
\* A DWORD is the pair << high word, low word >>, compared as unsigned.
\* Dword(v): the DWORD holding the 32-bit pattern of the integer v.
Dword(v) ==
  IF v >= 0 THEN << v \div 65536, v % 65536 >>
  ELSE LET w == (v + 2147483647) + 1
       IN  << 32768 + (w \div 65536), w % 65536 >>
DwordLess(a, b) == a[1] < b[1] \/ (a[1] = b[1] /\ a[2] < b[2])

\* The numeric fields of CONFIG with the bounds and the default of each.
NumericFields ==
  << "monitorIntervalMs", "cpuThresholdPercent", "memThresholdMb",
     "hangTimeoutMs", "logMaxSizeBytes", "maxHungWindows" >>
FieldMin ==
  [ monitorIntervalMs |-> MIN_MONITOR_INTERVAL_MS, cpuThresholdPercent |-> MIN_CPU_THRESHOLD,
    memThresholdMb |-> MIN_MEM_THRESHOLD_MB, hangTimeoutMs |-> MIN_HANG_TIMEOUT_MS,
    logMaxSizeBytes |-> MIN_LOG_SIZE_BYTES, maxHungWindows |-> MIN_MAX_HUNG_WINDOWS ]
FieldMax ==
  [ monitorIntervalMs |-> MAX_MONITOR_INTERVAL_MS, cpuThresholdPercent |-> MAX_CPU_THRESHOLD,
    memThresholdMb |-> MAX_MEM_THRESHOLD_MB, hangTimeoutMs |-> MAX_HANG_TIMEOUT_MS,
    logMaxSizeBytes |-> MAX_LOG_SIZE_BYTES, maxHungWindows |-> MAX_MAX_HUNG_WINDOWS ]
FieldDefault ==
  [ monitorIntervalMs |-> DEFAULT_MONITOR_INTERVAL_MS,
    cpuThresholdPercent |-> DEFAULT_CPU_THRESHOLD_PERCENT,
    memThresholdMb |-> DEFAULT_MEM_THRESHOLD_MB, hangTimeoutMs |-> DEFAULT_HANG_TIMEOUT_MS,
    logMaxSizeBytes |-> DEFAULT_LOG_MAX_SIZE_BYTES, maxHungWindows |-> DEFAULT_MAX_HUNG_WINDOWS ]

\* config.ini is a function from the keys it holds to their values: an
\* integer for a numeric key, a sequence of characters for ExcludeProcesses.
\* GetPrivateProfileIntW: the value of the key as a UINT, the default when
\* the key is absent; a negative value comes back as its 32-bit pattern.
GetPrivateProfileIntW(file, key, default) ==
  IF key \in DOMAIN file THEN Dword(file[key]) ELSE Dword(default)

\* The CLAMP macro of LoadConfig on one field.
CLAMP(field, min, max) ==
  LET orig == field
      f1 == IF DwordLess(field, Dword(min)) THEN Dword(min) ELSE field
      f2 == IF DwordLess(Dword(max), f1) THEN Dword(max) ELSE f1
  IN  [ value |-> f2, clamped |-> f1 # field \/ f2 # f1, logged |-> f2 # orig,
        orig |-> orig ]

\* A string of the exclusion list is a sequence of characters.
Separators == { ",", ";" }
Blanks == { " ", "\t" }
Wildcards == { "*", "?" }
PathSeparators == { "\\", "/" }
Contains(s, chars) == \E i \in 1..Len(s) : s[i] \in chars

\* while (*p is in chars) p++, from p; Len(input) + 1 is the terminator.
SkipChars(input, p, chars) ==
  LET stops == { q \in p..(Len(input) + 1) : q > Len(input) \/ input[q] \notin chars }
  IN  CHOOSE q \in stops : \A r \in stops : q <= r
\* while (*p && *p is not a separator) p++, from p.
SkipToken(input, p) ==
  LET stops == { q \in p..(Len(input) + 1) : q > Len(input) \/ input[q] \in Separators }
  IN  CHOOSE q \in stops : \A r \in stops : q <= r
\* while (end >= start && *end is blank) end--, from end.
TrimEnd(input, start, end) ==
  LET stops == { q \in (start - 1)..end : q < start \/ input[q] \notin Blanks }
  IN  CHOOSE q \in stops : \A r \in stops : q >= r

\* The loop of SplitExcludeString from position p.  list: the entries kept
\* so far (*count is its length); log: the warnings written so far.
RECURSIVE SplitLoop(_, _, _, _)
SplitLoop(input, p, list, log) ==
  IF ~(p <= Len(input) /\ Len(list) < MAX_EXCLUDE_COUNT)
  THEN [ p |-> p, list |-> list, log |-> log ]
  ELSE LET p1 == SkipChars(input, SkipChars(input, p, Separators), Blanks)
       IN  IF p1 > Len(input)
           THEN [ p |-> p1, list |-> list, log |-> log ]
           ELSE LET start == p1
                    p2 == SkipToken(input, p1)
                    end == TrimEnd(input, start, p2 - 1)
                    len == IF end - start + 1 >= MAX_PATH_LEN THEN MAX_PATH_LEN - 1
                           ELSE end - start + 1
                    token == SubSeq(input, start, start + len - 1)
                IN  IF Contains(token, Wildcards)
                    THEN SplitLoop(input, p2, list,
                                   Append(log, [warning |-> "wildcard", token |-> token]))
                    ELSE IF Contains(token, PathSeparators)
                    THEN SplitLoop(input, p2, list,
                                   Append(log, [warning |-> "path separator", token |-> token]))
                    ELSE IF Len(token) >= MAX_PATH_LEN - 1
                    THEN SplitLoop(input, p2, Append(list, token),
                                   Append(log, [warning |-> "too long", token |-> token]))
                    ELSE IF Len(token) > 0
                    THEN SplitLoop(input, p2, Append(list, token), log)
                    ELSE SplitLoop(input, p2, list, log)

\* SplitExcludeString(input, excludeList, count, hadWarning).
SplitExcludeString(input) ==
  IF input = << >> THEN [ list |-> << >>, log |-> << >>, hadWarning |-> FALSE ]
  ELSE LET r == SplitLoop(input, 1, << >>, << >>)
           log == IF Len(r.list) >= MAX_EXCLUDE_COUNT /\ r.p <= Len(input)
                  THEN Append(r.log, [warning |-> "list truncated", token |-> << >>])
                  ELSE r.log
       IN  [ list |-> r.list, log |-> log, hadWarning |-> log # << >> ]

\* The CONFIG LoadConfig builds from the file (newConfig, newExcludeCount,
\* newExcludeList) and the lines it logs.  excludeSize: the answer of the
\* size query for ExcludeProcesses; the second query copies at most
\* excludeSize - 1 characters.
LoadConfig(file, excludeSize) ==
  LET c == [ f \in { NumericFields[i] : i \in 1..Len(NumericFields) } |->
               CLAMP(GetPrivateProfileIntW(file, f, FieldDefault[f]), FieldMin[f], FieldMax[f]) ]
      text == IF "excludeProcesses" \in DOMAIN file THEN file.excludeProcesses ELSE << >>
      copied == IF excludeSize > 0
                THEN SubSeq(text, 1, IF Len(text) < excludeSize - 1 THEN Len(text)
                                     ELSE excludeSize - 1)
                ELSE << >>
      called == excludeSize > 0 /\ Len(copied) > 0
      s == IF called THEN SplitExcludeString(copied)
           ELSE [ list |-> << >>, log |-> << >>, hadWarning |-> FALSE ]
  IN  [ numeric |-> [ f \in DOMAIN c |-> c[f].value ],
        notifyOnTermination |->
          GetPrivateProfileIntW(file, "notifyOnTermination", 0) # Dword(0),
        monitoringDefault |->
          GetPrivateProfileIntW(file, "monitoringDefault", 1) # Dword(0),
        excludeCount |-> Len(s.list),
        excludeList |-> s.list,
        clampLog |-> { [ field |-> f, from |-> c[f].orig, to |-> c[f].value ] :
                       f \in { g \in DOMAIN c : c[g].logged } },
        excludeLog |-> s.log,
        split |-> called,
        builtIn |-> FALSE ]

\* The defaultConfig of the start-up code, used when no file can be loaded.
BuiltInConfig ==
  [ numeric |-> [ f \in DOMAIN FieldDefault |-> Dword(FieldDefault[f]) ],
    notifyOnTermination |-> FALSE, monitoringDefault |-> TRUE,
    excludeCount |-> 0, excludeList |-> << >>,
    clampLog |-> {}, excludeLog |-> << >>, split |-> FALSE, builtIn |-> TRUE ]

\* What a reader of a CONFIG can use: the fields and the first excludeCount
\* entries of the list.
Settings(c) ==
  [ numeric |-> c.numeric, notifyOnTermination |-> c.notifyOnTermination,
    monitoringDefault |-> c.monitoringDefault, excludeCount |-> c.excludeCount,
    excludeList |-> SubSeq(c.excludeList, 1, Min(c.excludeCount, Len(c.excludeList))) ]

\* The three stores of LoadConfig under csConfig.  junk: what the
\* uninitialised excludeCount and excludeList of newConfig hold.
StoreConfigStruct(g, new, junk) ==
  [ numeric |-> new.numeric, notifyOnTermination |-> new.notifyOnTermination,
    monitoringDefault |-> new.monitoringDefault,
    excludeCount |-> IF new.builtIn THEN 0 ELSE junk.excludeCount,
    excludeList |-> junk.excludeList ]
StoreExcludeCount(g, new) == [ g EXCEPT !.excludeCount = new.excludeCount ]
StoreExcludeListSkipped(g, new) == g
StoreExcludeList(g, new) == [ g EXCEPT !.excludeList = new.excludeList ]

\* What CreateDefaultConfig writes.  The keys are named after the CONFIG
\* field each one fills.
DefaultIni ==
  [ monitorIntervalMs |-> 5000, cpuThresholdPercent |-> 80, memThresholdMb |-> 500,
    hangTimeoutMs |-> 5000, logMaxSizeBytes |-> 1048576, maxHungWindows |-> 500,
    notifyOnTermination |-> 0, monitoringDefault |-> 1, excludeProcesses |-> << >> ]
\* No config.ini.
NoFile == [ missing |-> TRUE ]

\* Files that differ from the default in one numeric key: a negative value,
\* the values around both bounds, or no such key.
ClampValues(f) ==
  { -1, FieldMin[f] - 1, FieldMin[f], FieldMin[f] + 1, FieldMax[f], FieldMax[f] + 1 }
ClampFiles ==
  UNION { { [ DefaultIni EXCEPT ![f] = v ] : v \in ClampValues(f) } :
          f \in { NumericFields[i] : i \in 1..Len(NumericFields) } }
    \cup { [ k \in (DOMAIN DefaultIni) \ {"cpuThresholdPercent"} |-> DefaultIni[k] ] }

\* Exclusion strings: n one-letter entries, and a run of n letters.
Entries(n) == [ i \in 1..(2 * n - 1) |-> IF i % 2 = 1 THEN "a" ELSE "," ]
Letters(n) == [ i \in 1..n |-> "a" ]
ShortExcludeSamples ==
  { << >>,
    << "a", ",", "b" >>,
    << " ", "a", " ", ";", " ", "b", "\\", "c", ",", "d", "*", " ", ";", ";",
       "e", "?", ",", "\t", "f", "/", "g", " ", ",", "h", " ", "i" >>,
    << "*", ",", "a" >>,
    << " ", ",", "a" >>,
    Entries(MAX_EXCLUDE_COUNT),
    Entries(MAX_EXCLUDE_COUNT + 1),
    Entries(MAX_EXCLUDE_COUNT) \o << ",", "*" >>,
    << "*", ";" >> \o Entries(MAX_EXCLUDE_COUNT) }
LongExcludeSamples ==
  { Letters(MAX_PATH_LEN - 2) \o << ";", "b" >>,
    Letters(MAX_PATH_LEN - 1) \o << ";", "b" >>,
    Letters(MAX_PATH_LEN) \o << ";", "b" >>,
    << "*" >> \o Letters(MAX_PATH_LEN) \o << ";", "b" >>,
    Letters(MAX_PATH_LEN - 1) \o << "*", ";", "b" >>,
    Letters(MAX_PATH_LEN) \o << "\\", "c", ";", "b" >> }
ExcludeFilesOver(samples) == { [ DefaultIni EXCEPT !.excludeProcesses = s ] : s \in samples }

\* junk: what the uninitialised excludeCount and excludeList of newConfig
\* may hold; creations: whether CreateDefaultConfig can write the file;
\* sizeAnswers: whether the size query answers the size needed or 0.
NoJunk == [ excludeCount |-> 0, excludeList |-> << >> ]
SomeJunk == [ excludeCount |-> MAX_EXCLUDE_COUNT + 1, excludeList |-> << << "?" >> >> ]

\* The clamp of every numeric field, one field at a time.
ClampEnv ==
  [ maxLoads |-> MaxClampLoads, files |-> ClampFiles \cup {DefaultIni},
    creations |-> {TRUE}, sizeAnswers |-> {"needed"}, junk |-> {NoJunk} ]

\* The exclusion list, from short and long strings.
ExcludeEnv ==
  [ maxLoads |-> MaxExcludeLoads,
    files |-> ExcludeFilesOver(ShortExcludeSamples \cup LongExcludeSamples),
    creations |-> {TRUE}, sizeAnswers |-> {"needed"}, junk |-> {NoJunk} ]

\* Reloads of files that differ in numeric values and in the exclusion list,
\* a missing file, a failing CreateDefaultConfig.
ConfigEnv ==
  [ maxLoads |-> MaxLoads,
    files |-> { NoFile, DefaultIni,
                [ DefaultIni EXCEPT !.cpuThresholdPercent = 101, !.monitorIntervalMs = 999,
                                    !.excludeProcesses = << "a", ",", "b" >> ],
                [ DefaultIni EXCEPT !.memThresholdMb = 65537, !.notifyOnTermination = 1,
                                    !.excludeProcesses = << "c", ";", "d", "*", ";", "e" >> ] },
    creations |-> BOOLEAN, sizeAnswers |-> {"needed", "zero"},
    junk |-> {NoJunk, SomeJunk} ]

\* ------------------------------------------------------------ configuration actions
\* g.config = {0}; the start-up code has not loaded the configuration yet.
ZeroConfig ==
  [ numeric |-> [ f \in DOMAIN FieldDefault |-> Dword(0) ],
    notifyOnTermination |-> FALSE, monitoringDefault |-> FALSE,
    excludeCount |-> 0, excludeList |-> << >> ]

\* The configuration before the start-up load, config.ini being any file of C
\* or missing.
InitConfig(C) ==
  /\ configFile \in C.files
  /\ gConfig = ZeroConfig
  /\ newConfig = BuiltInConfig
  /\ localConfig = ZeroConfig
  /\ csConfig = "none"
  /\ loadPc = "startup"
  /\ loads = 0
  /\ configLoadFailed = FALSE
  /\ loadedConfigs = {}

\* The configuration of a monitor that loaded the default file and polls no more.
ConfigLoaded ==
  /\ configFile = DefaultIni
  /\ gConfig = Settings(LoadConfig(DefaultIni, 1))
  /\ newConfig = LoadConfig(DefaultIni, 1)
  /\ localConfig = gConfig
  /\ csConfig = "none"
  /\ loadPc = "off"
  /\ loads = 0
  /\ configLoadFailed = FALSE
  /\ loadedConfigs = { gConfig }

\* The load of the start-up code (LoadConfig, CreateDefaultConfig and
\* LoadConfig again, the built-in defaults at last), up to the store.
StartupLoad(C) ==
  /\ UNCHANGED << scanVars, logVars, auxVars >>
  /\ loadPc = "startup"
  /\ \E created \in C.creations, size \in C.sizeAnswers :
       LET file == IF configFile = NoFile /\ created THEN DefaultIni ELSE configFile
           excludeSize == IF size = "needed" THEN Len(file.excludeProcesses) + 1 ELSE 0
           new == IF file = NoFile THEN BuiltInConfig ELSE LoadConfig(file, excludeSize)
       IN  /\ configFile' = file
           /\ newConfig' = new
           /\ loadedConfigs' = loadedConfigs \cup { Settings(new) }
           /\ loadPc' = "enter"
  /\ UNCHANGED << gConfig, localConfig, csConfig, loads, configLoadFailed >>

\* HandleConfigReload at a poll, config.ini being now the file found (or
\* missing): nothing when the file is unchanged and the last load did not
\* fail, else CreateDefaultConfig for a missing file and LoadConfig up to the
\* store; a failed load keeps g.config.
HandleConfigReload(C) ==
  /\ UNCHANGED << scanVars, logVars, auxVars >>
  /\ loadPc = "poll"
  /\ loads < C.maxLoads
  /\ \E found \in C.files,
        created \in C.creations, size \in C.sizeAnswers :
       LET changed == found # configFile
           file == IF found = NoFile /\ created THEN DefaultIni ELSE found
           excludeSize == IF size = "needed" THEN Len(file.excludeProcesses) + 1 ELSE 0
       IN  IF ~(changed \/ configLoadFailed)
           THEN /\ loadPc' = "copy"
                /\ loads' = loads + 1
                /\ UNCHANGED << configFile, newConfig, loadedConfigs, configLoadFailed >>
           ELSE IF file = NoFile
           THEN /\ configFile' = file
                /\ configLoadFailed' = TRUE
                /\ loadPc' = "copy"
                /\ loads' = loads + 1
                /\ UNCHANGED << newConfig, loadedConfigs >>
           ELSE /\ configFile' = file
                /\ newConfig' = LoadConfig(file, excludeSize)
                /\ loadedConfigs' = loadedConfigs \cup { Settings(newConfig') }
                /\ loadPc' = "enter"
                /\ loads' = loads + 1
                /\ UNCHANGED configLoadFailed
  /\ UNCHANGED << gConfig, localConfig, csConfig >>

\* EnterCriticalSection(&g.csConfig) of the store.
StoreEnter ==
  /\ UNCHANGED << scanVars, logVars, auxVars >>
  /\ loadPc = "enter"
  /\ csConfig = "none"
  /\ csConfig' = "loader"
  /\ loadPc' = "struct"
  /\ UNCHANGED << configFile, gConfig, newConfig, localConfig, loads, configLoadFailed,
                  loadedConfigs >>

\* g.config = newConfig (g.config = defaultConfig in the start-up code).
StoreStruct(C) ==
  /\ UNCHANGED << scanVars, logVars, auxVars >>
  /\ loadPc = "struct"
  /\ \E junk \in C.junk : gConfig' = StoreConfigStruct(gConfig, newConfig, junk)
  /\ loadPc' = IF newConfig.builtIn THEN "leave" ELSE "count"
  /\ UNCHANGED << configFile, newConfig, localConfig, csConfig, loads, configLoadFailed,
                  loadedConfigs >>

\* g.config.excludeCount = newExcludeCount.
StoreCount ==
  /\ UNCHANGED << scanVars, logVars, auxVars >>
  /\ loadPc = "count"
  /\ gConfig' = StoreExcludeCount(gConfig, newConfig)
  /\ loadPc' = "list"
  /\ UNCHANGED << configFile, newConfig, localConfig, csConfig, loads, configLoadFailed,
                  loadedConfigs >>

\* memcpy(g.config.excludeList, newExcludeList, ...).
StoreList ==
  /\ UNCHANGED << scanVars, logVars, auxVars >>
  /\ loadPc = "list"
  /\ gConfig' = StoreExcludeList(gConfig, newConfig)
  /\ loadPc' = "leave"
  /\ UNCHANGED << configFile, newConfig, localConfig, csConfig, loads, configLoadFailed,
                  loadedConfigs >>

\* LeaveCriticalSection(&g.csConfig); the caller records whether the load
\* failed.  The next use of the configuration is a poll of the worker.
StoreLeave ==
  /\ UNCHANGED << scanVars, logVars, auxVars >>
  /\ loadPc = "leave"
  /\ csConfig' = "none"
  /\ configLoadFailed' = newConfig.builtIn
  /\ loadPc' = IF loads = 0 THEN "poll" ELSE "copy"
  /\ UNCHANGED << configFile, gConfig, newConfig, localConfig, loads, loadedConfigs >>

\* MonitorThread: localConfig = g.config under csConfig.
CopyConfig ==
  /\ UNCHANGED << scanVars, logVars, auxVars >>
  /\ loadPc = "copy"
  /\ csConfig = "none"
  /\ localConfig' = gConfig
  /\ loadPc' = "poll"
  /\ UNCHANGED << configFile, gConfig, newConfig, csConfig, loads, configLoadFailed,
                  loadedConfigs >>

\* ------------------------------------------------------------ log file
\* A file is [exists, lines]; a line is [text, epoch], epoch counting the
\* times the live log was emptied (renamed away or truncated) before the
\* line was written.  Another program holds a file open as "reader"
\* (GENERIC_READ, sharing read and write but not delete) or "exclusive" (no
\* sharing), or not at all ("none").  own: g.hLogFile is open (GENERIC_WRITE,
\* FILE_SHARE_READ).
NoFileAt == [ exists |-> FALSE, lines |-> << >> ]

\* CreateFileW(logPath, GENERIC_WRITE, FILE_SHARE_READ, ...) succeeds when
\* every open handle shares write and holds no write access itself.
CanOpenForWrite(own, other) == ~own /\ other \in {"none", "reader"}
\* _wrename and _wremove succeed when every open handle shares delete.
CanRename(own, other) == ~own /\ other = "none"

\* EnsureLogFileOpen(): [open, file] of g.hLogFile and monitor.log.
EnsureLogFileOpen(open, file, other) ==
  IF open THEN [ open |-> TRUE, file |-> file ]
  ELSE IF CanOpenForWrite(FALSE, other)
  THEN [ open |-> TRUE, file |-> [ exists |-> TRUE, lines |-> file.lines ] ]
  ELSE [ open |-> FALSE, file |-> file ]

\* WriteLogUTF8(text), under csLog: the lazy open, then the write at the end
\* of the file.  written: the line reached the file.
WriteLogUTF8(open, file, other, text, ep) ==
  LET o == EnsureLogFileOpen(open, file, other)
  IN  IF o.open
      THEN [ open |-> TRUE, written |-> TRUE,
             file |-> [ o.file EXCEPT !.lines = Append(@, [ text |-> text, epoch |-> ep ]) ] ]
      ELSE [ open |-> FALSE, written |-> FALSE, file |-> o.file ]

\* No rotation has found the log oversized yet.  These fields record what
\* the last RotateLogIfNeeded that found it oversized did: the lines of the
\* log when it was found oversized, the renames that failed on a held log,
\* whether the first attempt renamed, and the lines it logged.
NoRotation ==
  [ found |-> FALSE, returned |-> FALSE, detected |-> << >>, renamed |-> FALSE,
    firstTry |-> FALSE, truncated |-> FALSE, lockedTries |-> 0, said |-> {} ]

\* ------------------------------------------------------------ log actions
\* The monitor runs, nothing is logged yet; a backup of an earlier run exists.
InitLog ==
  /\ files = [ log |-> NoFileAt,
               old |-> [ exists |-> TRUE, lines |-> << [ text |-> "entry", epoch |-> 0 ] >> ],
               tmp |-> NoFileAt ]
  /\ hLogFile = FALSE
  /\ ext = [ log |-> "none", old |-> "none", tmp |-> "none" ]
  /\ csLog = "none"
  /\ rotPc = "idle"
  /\ retry = 0
  /\ rotations = 0
  /\ epoch = 1
  /\ rotation = NoRotation
  /\ unlockedOps = {}
  /\ uiLines = 0
  /\ extEvents = 0
  /\ programRunning = TRUE

\* The worker logs a line of a scan (LogMessage).
WriteEntry ==
  /\ UNCHANGED << scanVars, configVars, auxVars >>
  /\ programRunning
  /\ rotPc = "idle"
  /\ csLog = "none"
  /\ Len(files.log.lines) <= LogCap
  /\ LET w == WriteLogUTF8(hLogFile, files.log, ext.log, "entry", epoch)
     IN  /\ hLogFile' = w.open
         /\ files' = [ files EXCEPT !.log = w.file ]
  /\ UNCHANGED << ext, csLog, rotPc, retry, rotations, epoch, rotation, unlockedOps,
                  uiLines, extEvents, programRunning >>

\* The window thread logs a line (OnPowerResume: LogMessage).
UiLog ==
  /\ UNCHANGED << scanVars, configVars, auxVars >>
  /\ programRunning
  /\ csLog = "none"
  /\ uiLines < MaxUiLines
  /\ LET w == WriteLogUTF8(hLogFile, files.log, ext.log, "resume", epoch)
     IN  /\ hLogFile' = w.open
         /\ files' = [ files EXCEPT !.log = w.file ]
  /\ uiLines' = uiLines + 1
  /\ UNCHANGED << ext, csLog, rotPc, retry, rotations, epoch, rotation, unlockedOps,
                  extEvents, programRunning >>

\* Another program opens one of the three files.
ExternalOpen ==
  /\ UNCHANGED << scanVars, configVars, auxVars >>
  /\ programRunning
  /\ extEvents < MaxExternalEvents
  /\ \E p \in {"log", "old", "tmp"}, mode \in {"reader", "exclusive"} :
       /\ files[p].exists
       /\ ext[p] = "none"
       /\ mode = "exclusive" => (p = "log" /\ ~hLogFile)
       /\ ext' = [ ext EXCEPT ![p] = mode ]
  /\ extEvents' = extEvents + 1
  /\ UNCHANGED << files, hLogFile, csLog, rotPc, retry, rotations, epoch, rotation,
                  unlockedOps, uiLines, programRunning >>

\* The other program closes the file.
ExternalClose ==
  /\ UNCHANGED << scanVars, configVars, auxVars >>
  /\ programRunning
  /\ \E p \in {"log", "old", "tmp"} :
       /\ ext[p] # "none"
       /\ ext' = [ ext EXCEPT ![p] = "none" ]
  /\ UNCHANGED << files, hLogFile, csLog, rotPc, retry, rotations, epoch, rotation,
                  unlockedOps, uiLines, extEvents, programRunning >>

\* RotateLogIfNeeded(maxSizeBytes) up to the rename loop: under csLog, return
\* when the handle is invalid or the file is not over the cap; else
\* CloseLogFile, _wremove of the backup and of the temporary file.
RotateBegin ==
  /\ UNCHANGED << scanVars, configVars, auxVars >>
  /\ programRunning
  /\ rotPc = "idle"
  /\ csLog = "none"
  /\ rotations < MaxRotations
  /\ IF ~hLogFile \/ Len(files.log.lines) <= LogCap
     THEN /\ rotations' = rotations + 1
          /\ rotation' = NoRotation
          /\ UNCHANGED << files, hLogFile, csLog, rotPc, retry >>
     ELSE /\ hLogFile' = FALSE
          /\ files' = [ files EXCEPT
                          !.old = IF CanRename(FALSE, ext.old) THEN NoFileAt ELSE @,
                          !.tmp = IF CanRename(FALSE, ext.tmp) THEN NoFileAt ELSE @ ]
          /\ csLog' = "worker"
          /\ rotPc' = "toTemp"
          /\ retry' = 0
          /\ rotation' = [ NoRotation EXCEPT !.found = TRUE, !.detected = files.log.lines ]
          /\ UNCHANGED rotations
  /\ UNCHANGED << ext, epoch, unlockedOps, uiLines, extEvents, programRunning >>

\* _wrename(logPath, tempPath); a failure ends the attempt.
RenameToTemp ==
  /\ UNCHANGED << scanVars, configVars, auxVars >>
  /\ programRunning
  /\ rotPc = "toTemp"
  /\ IF files.log.exists /\ CanRename(hLogFile, ext.log) /\ ~files.tmp.exists
     THEN /\ files' = [ files EXCEPT !.tmp = files.log, !.log = NoFileAt ]
          /\ rotPc' = "toOld"
          /\ UNCHANGED << retry, rotation >>
     ELSE /\ retry' = retry + 1
          /\ rotPc' = IF retry + 1 < LOG_RENAME_RETRY_LIMIT THEN "toTemp" ELSE "unlock"
          /\ rotation' = [ rotation EXCEPT
                             !.lockedTries = IF files.log.exists /\ ext.log # "none"
                                             THEN @ + 1 ELSE @ ]
          /\ UNCHANGED files
  /\ UNCHANGED << hLogFile, ext, csLog, rotations, epoch, unlockedOps, uiLines, extEvents,
                  programRunning >>

\* _wrename(tempPath, oldPath); success ends the loop.
RenameToOld ==
  /\ UNCHANGED << scanVars, configVars, auxVars >>
  /\ programRunning
  /\ rotPc = "toOld"
  /\ IF CanRename(FALSE, ext.tmp) /\ ~files.old.exists
     THEN /\ files' = [ files EXCEPT !.old = files.tmp, !.tmp = NoFileAt ]
          /\ rotation' = [ rotation EXCEPT !.renamed = TRUE, !.firstTry = (retry = 0) ]
          /\ epoch' = epoch + 1
          /\ rotPc' = "unlock"
     ELSE /\ rotPc' = "back"
          /\ UNCHANGED << files, rotation, epoch >>
  /\ UNCHANGED << hLogFile, ext, csLog, retry, rotations, unlockedOps, uiLines, extEvents,
                  programRunning >>

\* _wrename(tempPath, logPath), its result ignored; the attempt has failed.
RenameBack ==
  /\ UNCHANGED << scanVars, configVars, auxVars >>
  /\ programRunning
  /\ rotPc = "back"
  /\ files' = IF CanRename(FALSE, ext.tmp) /\ ~files.log.exists
              THEN [ files EXCEPT !.log = files.tmp, !.tmp = NoFileAt ]
              ELSE files
  /\ retry' = retry + 1
  /\ rotPc' = IF retry + 1 < LOG_RENAME_RETRY_LIMIT THEN "toTemp" ELSE "unlock"
  /\ UNCHANGED << hLogFile, ext, csLog, rotations, epoch, rotation, unlockedOps, uiLines,
                  extEvents, programRunning >>

\* LeaveCriticalSection(&g.csLog) after the loop.
RotateUnlock ==
  /\ UNCHANGED << scanVars, configVars, auxVars >>
  /\ programRunning
  /\ rotPc = "unlock"
  /\ csLog' = "none"
  /\ rotPc' = IF rotation.renamed THEN "rotated" ELSE "warning"
  /\ UNCHANGED << files, hLogFile, ext, retry, rotations, epoch, rotation, unlockedOps,
                  uiLines, extEvents, programRunning >>

\* SafeLogMessageAfterUnlock of the line the rotation has reached:
\* "WARNING: Log rotation failed ...", "Log file truncated successfully.",
\* "ERROR: Failed to truncate log file ..." or "Log rotated successfully.".
LogRotationLine ==
  /\ UNCHANGED << scanVars, configVars, auxVars >>
  /\ programRunning
  /\ rotPc \in {"warning", "truncated", "error", "rotated"}
  /\ csLog = "none"
  /\ LET w == WriteLogUTF8(hLogFile, files.log, ext.log, rotPc, epoch)
     IN  /\ hLogFile' = w.open
         /\ files' = [ files EXCEPT !.log = w.file ]
         /\ rotation' = [ rotation EXCEPT !.said = IF w.written THEN @ \cup {rotPc} ELSE @ ]
  /\ rotPc' = IF rotPc = "warning" THEN "truncate" ELSE "reopen"
  /\ UNCHANGED << ext, csLog, retry, rotations, epoch, unlockedOps, uiLines, extEvents,
                  programRunning >>

\* The fallback: CreateFileW(logPath, GENERIC_WRITE, FILE_SHARE_READ, ...,
\* OPEN_EXISTING, ...), SetEndOfFile at 0, CloseHandle; csLog is not held.
TruncateFallback ==
  /\ UNCHANGED << scanVars, configVars, auxVars >>
  /\ programRunning
  /\ rotPc = "truncate"
  /\ unlockedOps' = unlockedOps \cup {"truncate"}
  /\ IF files.log.exists /\ CanOpenForWrite(hLogFile, ext.log)
     THEN /\ files' = [ files EXCEPT !.log.lines = << >> ]
          /\ rotation' = [ rotation EXCEPT !.truncated = TRUE ]
          /\ epoch' = epoch + 1
          /\ rotPc' = "truncated"
     ELSE /\ rotPc' = "error"
          /\ UNCHANGED << files, rotation, epoch >>
  /\ UNCHANGED << hLogFile, ext, csLog, retry, rotations, uiLines, extEvents,
                  programRunning >>

\* The end of RotateLogIfNeeded: EnsureLogFileOpen under csLog.
RotateReopen ==
  /\ UNCHANGED << scanVars, configVars, auxVars >>
  /\ programRunning
  /\ rotPc = "reopen"
  /\ csLog = "none"
  /\ LET o == EnsureLogFileOpen(hLogFile, files.log, ext.log)
     IN  /\ hLogFile' = o.open
         /\ files' = [ files EXCEPT !.log = o.file ]
  /\ rotation' = [ rotation EXCEPT !.returned = TRUE ]
  /\ rotations' = rotations + 1
  /\ rotPc' = "idle"
  /\ UNCHANGED << ext, csLog, retry, epoch, unlockedOps, uiLines, extEvents,
                  programRunning >>

\* Cleanup (window thread) after its wait for the monitor thread ended or
\* timed out: CloseLogFile(); csLog is not held.
Cleanup ==
  /\ UNCHANGED << scanVars, configVars, auxVars >>
  /\ programRunning
  /\ programRunning' = FALSE
  /\ hLogFile' = FALSE
  /\ unlockedOps' = IF hLogFile THEN unlockedOps \cup {"close"} ELSE unlockedOps
  /\ UNCHANGED << files, ext, csLog, rotPc, retry, rotations, epoch, rotation, uiLines,
                  extEvents >>

\* ------------------------------------------------------------ shutdown
LOG_RENAME_DELAYS == << 100, 200, 400, 800, 1600, 3200, 5000, 5000, 5000, 5000 >>

StopSignalled == ~programRunning /\ stopEvent

WorkerOff ==
  /\ stopEvent = FALSE
  /\ wpc = "off"
  /\ wIter = 0
  /\ wRetry = 0
  /\ wWindows = 0
  /\ wWait = 0
  /\ wElapsed = 0
  /\ blocked = 0
  /\ wSleep = 0
  /\ joinLeft = JOIN_WAITS * JOIN_WAIT_MS
  /\ released = FALSE

\* CreateThread(MonitorThread): the worker is at the top of its loop.
InitWorker ==
  /\ stopEvent = FALSE
  /\ wpc = "top"
  /\ wIter = 0
  /\ wRetry = 0
  /\ wWindows = 0
  /\ wWait = 0
  /\ wElapsed = 0
  /\ blocked = 0
  /\ wSleep = 0
  /\ joinLeft = JOIN_WAITS * JOIN_WAIT_MS
  /\ released = FALSE

\* Cleanup (window thread): InterlockedExchange(&g.programRunning, 0).
CleanupClearRunning ==
  /\ programRunning
  /\ programRunning' = FALSE
  /\ UNCHANGED << scanVars, configVars, logFileVars, stopVars, hungVars, cpuVars, reloadVars, warnVars >>

\* Cleanup (window thread): SetEvent(g.hStopEvent).
CleanupSetEvent ==
  /\ ~programRunning
  /\ ~stopEvent
  /\ stopEvent' = TRUE
  /\ UNCHANGED << scanVars, configVars, logVars, hungVars, cpuVars, reloadVars, warnVars >>
  /\ UNCHANGED << wpc, wIter, wRetry, wWindows, wWait, wElapsed, blocked,
                  wSleep, joinLeft, released >>

\* MonitorThread: the loop condition, then the steps up to ProcessSnapshot
\* (none of them sleeps or waits).
WorkerLoopTop ==
  /\ wpc = "top"
  /\ programRunning => wIter < MaxWorkerLoops
  /\ wpc' = IF programRunning THEN "rotate" ELSE "exited"
  /\ wIter' = IF programRunning THEN wIter + 1 ELSE wIter
  /\ blocked' = 0
  /\ UNCHANGED << scanVars, configVars, logVars, hungVars, cpuVars, reloadVars, warnVars >>
  /\ UNCHANGED << stopEvent, wRetry, wWindows, wWait, wElapsed, joinLeft, released, wSleep >>

\* RotateLogIfNeeded up to the rename loop: the size test.
WorkerRotate ==
  /\ wpc = "rotate"
  /\ \E oversized \in BOOLEAN, windows \in 0..MaxWindows :
       IF oversized
       THEN /\ wpc' = "rename"
            /\ wRetry' = 0
            /\ UNCHANGED wWindows
       ELSE /\ wpc' = "windows"
            /\ wWindows' = windows
            /\ UNCHANGED wRetry
  /\ blocked' = 0
  /\ UNCHANGED << scanVars, configVars, logVars, hungVars, cpuVars, reloadVars, warnVars >>
  /\ UNCHANGED << stopEvent, wIter, wWait, wElapsed, joinLeft, released, wSleep >>

\* RotateLogIfNeeded: one pass of the rename loop; after a failed rename the
\* Sleep before the next pass.
WorkerRename ==
  /\ wpc = "rename"
  /\ wSleep = 0
  /\ \E renamed \in BOOLEAN, windows \in 0..MaxWindows :
       IF renamed \/ wRetry = LOG_RENAME_RETRY_LIMIT - 1
       THEN /\ wpc' = "windows"
            /\ wWindows' = windows
            /\ blocked' = 0
            /\ UNCHANGED << wRetry, wSleep >>
       ELSE /\ blocked' = IF StopSignalled THEN LOG_RENAME_DELAYS[wRetry + 1] ELSE 0
            /\ wSleep' = LOG_RENAME_DELAYS[wRetry + 1]
            /\ wRetry' = wRetry + 1
            /\ UNCHANGED << wpc, wWindows >>
  /\ UNCHANGED << scanVars, configVars, logVars, hungVars, cpuVars, reloadVars, warnVars >>
  /\ UNCHANGED << stopEvent, wIter, wWait, wElapsed, joinLeft, released >>

\* Cleanup is inside its loop of WaitForSingleObject(g.hMonitorThread, 500).
CleanupWaiting == stopEvent /\ ~released /\ joinLeft > 0 /\ wpc # "exited"

\* RotateLogIfNeeded: the Sleep of the rename loop returns.  While Cleanup
\* waits for the thread the time is counted by CleanupWaitThread instead.
WorkerSleepEnds ==
  /\ wSleep > 0
  /\ ~CleanupWaiting
  /\ wSleep' = 0
  /\ UNCHANGED << scanVars, configVars, logVars, hungVars, cpuVars, reloadVars, warnVars >>
  /\ UNCHANGED << stopEvent, wpc, wIter, wRetry, wWindows, wWait, wElapsed, blocked,
                  joinLeft, released >>

\* Cleanup: time passes in WaitForSingleObject(g.hMonitorThread, 500), up to
\* ten times, while the worker sleeps.
CleanupWaitThread ==
  /\ CleanupWaiting
  /\ wSleep > 0
  /\ LET d == Min(wSleep, joinLeft)
     IN  /\ wSleep' = wSleep - d
         /\ joinLeft' = joinLeft - d
  /\ UNCHANGED << scanVars, configVars, logVars, hungVars, cpuVars, reloadVars, warnVars >>
  /\ UNCHANGED << stopEvent, wpc, wIter, wRetry, wWindows, wWait, wElapsed, blocked,
                  released >>

\* Cleanup after the wait loop (the thread exited, or the ten waits timed
\* out): CloseHandle(g.hMonitorThread), CloseLogFile(), the history list
\* freed, the four critical sections deleted.
CleanupRelease ==
  /\ stopEvent
  /\ ~released
  /\ wpc = "exited" \/ joinLeft = 0
  /\ released' = TRUE
  /\ UNCHANGED << scanVars, configVars, logVars, hungVars, cpuVars, reloadVars, warnVars >>
  /\ UNCHANGED << stopEvent, wpc, wIter, wRetry, wWindows, wWait, wElapsed, blocked,
                  wSleep, joinLeft >>

\* The shared objects the worker uses from its position on, before it next
\* tests g.programRunning at the top of its loop.
WorkerUses ==
  IF wpc \in {"rotate", "rename"}
  THEN {"csLog", "hLogFile", "csHistory", "history", "csBalloon", "csConfig"}
  ELSE IF wpc \in {"windows", "snapshot"} THEN {"csLog", "hLogFile", "csHistory", "history"}
  ELSE IF wpc = "scan" THEN {"csLog", "hLogFile", "csHistory", "history", "csBalloon", "csConfig"}
  ELSE IF wpc = "top" /\ programRunning
  THEN {"csLog", "hLogFile", "csHistory", "history", "csBalloon", "csConfig"}
  ELSE {}

\* EnumHungWindowsProc for the next window: the stop test, then the probe.
WorkerEnumWindow ==
  /\ wpc = "windows"
  /\ IF stopEvent \/ wWindows = 0
     THEN /\ wpc' = "snapshot"
          /\ wWindows' = 0
     ELSE /\ wWindows' = wWindows - 1
          /\ UNCHANGED wpc
  /\ blocked' = 0
  /\ UNCHANGED << scanVars, configVars, logVars, hungVars, cpuVars, reloadVars, warnVars >>
  /\ UNCHANGED << stopEvent, wIter, wRetry, wWait, wElapsed, joinLeft, released, wSleep >>

\* ProcessSnapshot: CreateToolhelp32Snapshot; on failure the wait is computed.
WorkerSnapshot ==
  /\ wpc = "snapshot"
  /\ \E failures \in 0..2 :
       IF failures = 0
       THEN /\ wpc' = "scan"
            /\ UNCHANGED << wWait, wElapsed >>
       ELSE /\ wpc' = "backoff"
            /\ wWait' = BackoffWait(failures, MIN_MONITOR_INTERVAL_MS)
            /\ wElapsed' = 0
  /\ blocked' = 0
  /\ UNCHANGED << scanVars, configVars, logVars, hungVars, cpuVars, reloadVars, warnVars >>
  /\ UNCHANGED << stopEvent, wIter, wRetry, wWindows, joinLeft, released, wSleep >>

\* ProcessSnapshot: one pass of the backoff loop,
\* WaitForSingleObject(g.hStopEvent, step).
WorkerBackoffStep ==
  /\ wpc = "backoff"
  /\ IF wElapsed < wWait /\ ~stopEvent
     THEN /\ wElapsed' = wElapsed + BACKOFF_STEP_MS
          /\ UNCHANGED wpc
     ELSE /\ wpc' = "wait"
          /\ UNCHANGED wElapsed
  /\ blocked' = 0
  /\ UNCHANGED << scanVars, configVars, logVars, hungVars, cpuVars, reloadVars, warnVars >>
  /\ UNCHANGED << stopEvent, wIter, wRetry, wWindows, wWait, joinLeft, released, wSleep >>

\* ProcessSnapshot: the enumeration loop and the sweep (no sleep, no wait).
WorkerScan ==
  /\ wpc = "scan"
  /\ wpc' = "wait"
  /\ blocked' = 0
  /\ UNCHANGED << scanVars, configVars, logVars, hungVars, cpuVars, reloadVars, warnVars >>
  /\ UNCHANGED << stopEvent, wIter, wRetry, wWindows, wWait, wElapsed, joinLeft, released, wSleep >>

\* MonitorThread: WaitForSingleObject(g.hStopEvent, monitorIntervalMs); it
\* returns at once when the event is set.
WorkerIntervalWait ==
  /\ wpc = "wait"
  /\ wpc' = "top"
  /\ blocked' = 0
  /\ UNCHANGED << scanVars, configVars, logVars, hungVars, cpuVars, reloadVars, warnVars >>
  /\ UNCHANGED << stopEvent, wIter, wRetry, wWindows, wWait, wElapsed, joinLeft, released, wSleep >>

\* ------------------------------------------------------------ hung windows
NoParams == [head |-> << >>, maxWindows |-> 0, scannedCount |-> 0]

\* What EnumWindows may hand to the callback: a window of no process, an
\* invisible one, and windows of two processes that answer or hang.
WindowSamples ==
  { [visible |-> FALSE, pid |-> 1, hung |-> TRUE],
    [visible |-> TRUE, pid |-> 0, hung |-> FALSE] }
  \cup [visible : {TRUE}, pid : Pids, hung : BOOLEAN]

InHungList(head, pid) == \E i \in 1..Len(head) : head[i] = pid

\* EnumHungWindowsProc for window w.  params: the parameters as the callback
\* leaves them; continue: its return value; probed: IsWindowHungFast was
\* called; warned: the cap warning was logged.
EnumHungWindowsProc(params, stopped, w, mallocOk) ==
  IF params.scannedCount >= params.maxWindows
  THEN [params |-> params, continue |-> FALSE, probed |-> FALSE, warned |-> TRUE]
  ELSE IF stopped
  THEN [params |-> params, continue |-> FALSE, probed |-> FALSE, warned |-> FALSE]
  ELSE IF ~w.visible \/ w.pid = 0
  THEN [params |-> params, continue |-> TRUE, probed |-> FALSE, warned |-> FALSE]
  ELSE IF w.hung /\ InHungList(params.head, w.pid)
  THEN [params |-> params, continue |-> TRUE, probed |-> TRUE, warned |-> FALSE]
  ELSE [ params |-> [params EXCEPT
                       !.head = IF w.hung /\ mallocOk THEN <<w.pid>> \o @ ELSE @,
                       !.scannedCount = @ + 1],
         continue |-> TRUE, probed |-> TRUE, warned |-> FALSE ]

HungOff ==
  /\ hpc = "off"
  /\ hLeft = 0
  /\ hParams = NoParams
  /\ hProbes = 0
  /\ hCapWarnings = 0
  /\ hScans = 0

InitHung ==
  /\ hpc = "idle"
  /\ hLeft = 0
  /\ hParams = NoParams
  /\ hProbes = 0
  /\ hCapWarnings = 0
  /\ hScans = 0

\* BuildHungProcessList up to EnumWindows: fresh parameters.
BuildHungProcessList ==
  /\ hpc = "idle"
  /\ hScans < MaxHungScans
  /\ \E n \in 0..MaxEnumWindows : hLeft' = n
  /\ hParams' = [head |-> << >>, maxWindows |-> MIN_MAX_HUNG_WINDOWS, scannedCount |-> 0]
  /\ hProbes' = 0
  /\ hCapWarnings' = 0
  /\ hScans' = hScans + 1
  /\ hpc' = "enum"
  /\ UNCHANGED << scanVars, configVars, logVars, stopVars, cpuVars, reloadVars, warnVars >>

\* EnumWindows hands the next window to the callback; it stops when the
\* callback returns FALSE or no window is left.
EnumWindowsStep ==
  /\ hpc = "enum"
  /\ IF hLeft = 0
     THEN /\ hpc' = "idle"
          /\ UNCHANGED << hLeft, hParams, hProbes, hCapWarnings >>
     ELSE \E w \in WindowSamples, mallocOk \in BOOLEAN :
            LET r == EnumHungWindowsProc(hParams, stopEvent, w, mallocOk)
            IN  /\ hParams' = r.params
                /\ hProbes' = IF r.probed THEN hProbes + 1 ELSE hProbes
                /\ hCapWarnings' = IF r.warned THEN hCapWarnings + 1 ELSE hCapWarnings
                /\ hLeft' = IF r.continue THEN hLeft - 1 ELSE 0
                /\ hpc' = IF r.continue THEN "enum" ELSE "idle"
  /\ UNCHANGED hScans
  /\ UNCHANGED << scanVars, configVars, logVars, stopVars, cpuVars, reloadVars, warnVars >>

\* ------------------------------------------------------------ CPU sampling
\* One process followed over consecutive scans: its kernel and user times
\* never decrease; the performance counter may stand still or, read on
\* another core, fall behind the cached reading.
KernelSteps == {0, 100000}
UserSteps == {0, 100000}
PerfSteps == {-1, 0, 1, 2}

CpuOff ==
  /\ cEntry = [ftKernel |-> 0, ftUser |-> 0, perfTime |-> 0]
  /\ cBefore = cEntry
  /\ cSample = [timesOk |-> FALSE, ftKernel |-> 0, ftUser |-> 0, nowPerf |-> 0]
  /\ cResult = Rat(0, 1)
  /\ cCalls = -1
  /\ cInstance = 1
  /\ cOwner = 1

\* FindOrCreateHistory made the entry: the baseline is what the process
\* showed then, or zero if its times could not be read.
InitCpu ==
  /\ \E timesOk \in BOOLEAN, k \in KernelSteps, u \in UserSteps :
       LET e == NewHistory(1, timesOk, k, u, 1)
       IN  /\ cEntry = [ftKernel |-> e.ftKernel, ftUser |-> e.ftUser, perfTime |-> e.perfTime]
           /\ cSample = [timesOk |-> timesOk, ftKernel |-> k, ftUser |-> u, nowPerf |-> 1]
  /\ cBefore = cEntry
  /\ cResult = Rat(0, 1)
  /\ cCalls = 0
  /\ cInstance = 1
  /\ cOwner = 1

\* The next scan meets the pid again: FindOrCreateHistory(pid) returns the
\* entry of that pid, and MeasureProcessResources does
\* *cpu = CalcCpuUsage(hProcess, hist) on it.
CalcCpuUsageCall ==
  /\ cCalls >= 0
  /\ cCalls < MaxCpuCalls
  /\ \E timesOk \in BOOLEAN, dk \in KernelSteps, du \in UserSteps, dp \in PerfSteps :
       LET k == cSample.ftKernel + dk
           u == cSample.ftUser + du
           t == cSample.nowPerf + dp
           e == [NewHistory(1, TRUE, cEntry.ftKernel, cEntry.ftUser, cEntry.perfTime)
                   EXCEPT !.seen = FALSE]
           f == FindOrCreateHistory(<<e>>, 1, TRUE, TRUE, k, u, t)
           r == CalcCpuUsage(f.history[f.hist], timesOk, k, u, t)
           stored == [ftKernel |-> r.hist.ftKernel, ftUser |-> r.hist.ftUser,
                      perfTime |-> r.hist.perfTime]
       IN  /\ t >= 0
           /\ cSample' = [timesOk |-> timesOk, ftKernel |-> k, ftUser |-> u, nowPerf |-> t]
           /\ cBefore' = cEntry
           /\ cEntry' = stored
           /\ cOwner' = IF f.created \/ stored # cEntry THEN cInstance ELSE cOwner
           /\ cResult' = r.cpu
  /\ cCalls' = cCalls + 1
  /\ UNCHANGED cInstance
  /\ UNCHANGED << scanVars, configVars, logVars, stopVars, hungVars, reloadVars, warnVars >>

\* Between two scans the process holding the pid exits and the system gives
\* the pid to a newly created process, whose CPU times start at zero.  Both
\* scans enumerate the pid, so CleanupHistory keeps the entry.
PidReused ==
  /\ cCalls >= 0
  /\ cInstance < MaxInstances
  /\ cInstance' = cInstance + 1
  /\ cSample' = [cSample EXCEPT !.ftKernel = 0, !.ftUser = 0]
  /\ UNCHANGED << cEntry, cBefore, cResult, cCalls, cOwner >>
  /\ UNCHANGED << scanVars, configVars, logVars, stopVars, hungVars, reloadVars, warnVars >>

\* ------------------------------------------------------------ config polling
\* What the user may save: a CPU threshold within the bounds, the default,
\* one below the lower and one above the upper bound.
ReloadFiles == { [DefaultIni EXCEPT !.cpuThresholdPercent = v] : v \in {0, 50, 80, 150} }

ReloadOff ==
  /\ rFile = [time |-> 0, keys |-> DefaultIni]
  /\ rLastWrite = 0
  /\ rActive = LoadConfig(DefaultIni, 1).numeric
  /\ rpc = "off"
  /\ rEdits = 0
  /\ rLastCheck = 0

\* Start-up: LoadConfig, then UpdateConfigLastWrite, before the thread runs.
InitReload ==
  /\ rFile = [time |-> 1, keys |-> DefaultIni]
  /\ rLastWrite = 1
  /\ rActive = LoadConfig(DefaultIni, 1).numeric
  /\ rpc = "poll"
  /\ rEdits = 0
  /\ rLastCheck = 0

\* The user saves config.ini: new contents, a later last-write time.
EditConfigFile ==
  /\ rpc # "off"
  /\ rEdits < MaxEdits
  /\ \E f \in ReloadFiles \ {rFile.keys} :
       rFile' = [time |-> rFile.time + 1, keys |-> f]
  /\ rEdits' = rEdits + 1
  /\ UNCHANGED << rLastWrite, rActive, rpc, rLastCheck >>
  /\ UNCHANGED << scanVars, configVars, logVars, stopVars, hungVars, cpuVars, warnVars >>

\* CheckConfigFileChanged(): the file time against g.configLastWrite.
CheckConfigFileChanged == rFile.time # rLastWrite

\* HandleConfigReload, a poll that finds the file changed.
PollCheck ==
  /\ rpc = "poll"
  /\ CheckConfigFileChanged
  /\ rpc' = "load"
  /\ UNCHANGED << rFile, rLastWrite, rActive, rEdits, rLastCheck >>
  /\ UNCHANGED << scanVars, configVars, logVars, stopVars, hungVars, cpuVars, warnVars >>

\* HandleConfigReload, a poll that finds the file unchanged: only
\* *lastConfigCheck = now.
PollUnchanged ==
  /\ rpc = "poll"
  /\ ~CheckConfigFileChanged
  /\ rLastCheck' = 1 - rLastCheck
  /\ UNCHANGED << rFile, rLastWrite, rActive, rpc, rEdits >>
  /\ UNCHANGED << scanVars, configVars, logVars, stopVars, hungVars, cpuVars, warnVars >>

\* HandleConfigReload: LoadConfig() reads the file and stores the settings.
PollLoad ==
  /\ rpc = "load"
  /\ rActive' = LoadConfig(rFile.keys, 1).numeric
  /\ rpc' = "update"
  /\ UNCHANGED << rFile, rLastWrite, rEdits, rLastCheck >>
  /\ UNCHANGED << scanVars, configVars, logVars, stopVars, hungVars, cpuVars, warnVars >>

\* HandleConfigReload: UpdateConfigLastWrite() reads the file time again;
\* the poll ends with *lastConfigCheck = now.
UpdateConfigLastWrite ==
  /\ rpc = "update"
  /\ rLastWrite' = rFile.time
  /\ rpc' = "poll"
  /\ rLastCheck' = 1 - rLastCheck
  /\ UNCHANGED << rFile, rActive, rEdits >>
  /\ UNCHANGED << scanVars, configVars, logVars, stopVars, hungVars, cpuVars, warnVars >>

\* ------------------------------------------------------------ global warnings
\* The cooldown-gated warnings and the cooldown of each.
WarningCooldown ==
  [ clamp |-> WARNING_COOLDOWN_MS, exclude |-> WARNING_COOLDOWN_MS,
    logfail |-> LOG_FAIL_BALLOON_COOLDOWN_MS, configfail |-> CONFIG_FAIL_BALLOON_COOLDOWN_MS ]
Warnings == DOMAIN WarningCooldown

\* A variant of the gate that lets a warning through when none was shown yet.
WarningGateFirstAllowed(w, nowTick, lastTick, active) ==
  lastTick = 0 \/ nowTick - lastTick >= WarningCooldown[w]

\* The test in front of each ShowBalloon: now - last >= cooldown, on
\* ULONGLONG ticks (now is never before last); the reload warning is raised
\* only while monitoring is switched on.
WarningGate(w, nowTick, lastTick, active) ==
  /\ w = "configfail" => active = 1
  /\ nowTick - lastTick >= WarningCooldown[w]

\* The system may have started a second, ten minutes, an hour or a week before.
UptimeSamples ==
  { 1000, CONFIG_FAIL_BALLOON_COOLDOWN_MS, LOG_FAIL_BALLOON_COOLDOWN_MS, WARNING_COOLDOWN_MS }
WarningDelays == { 1000, CONFIG_FAIL_BALLOON_COOLDOWN_MS, LOG_FAIL_BALLOON_COOLDOWN_MS }

NoWarning == [ n |-> 0, first |-> FALSE, shownAt |-> -1, at |-> 0, shown |-> FALSE ]

WarnOff ==
  /\ uptime = 0
  /\ lastWarningTick = [w \in Warnings |-> 0]
  /\ warned = [w \in Warnings |-> NoWarning]

\* WinMain: the warning ticks are cleared; nothing has been warned about.
InitWarn ==
  /\ uptime \in UptimeSamples
  /\ lastWarningTick = [w \in Warnings |-> 0]
  /\ warned = [w \in Warnings |-> NoWarning]

WarningsSoFar ==
  warned.clamp.n + warned.exclude.n + warned.logfail.n + warned.configfail.n

\* Some time later the condition of one of the warnings occurs (LoadConfig
\* clamped a value or dropped an exclusion entry, the log file could not be
\* created or written, a reload failed): the gate, then the balloon and the
\* tick.
WarningOccurs ==
  /\ uptime > 0
  /\ \E w \in Warnings, d \in WarningDelays :
       LET nowTick == uptime + d
           show == WarningGate(w, nowTick, lastWarningTick[w], monitorActive)
       IN  /\ WarningsSoFar < MaxWarnings
           /\ uptime' = nowTick
           /\ lastWarningTick' = IF show THEN [lastWarningTick EXCEPT ![w] = nowTick]
                                  ELSE lastWarningTick
           /\ warned' = [warned EXCEPT ![w] =
                           [ n |-> @.n + 1,
                             first |-> IF @.n = 0 THEN show ELSE @.first,
                             shownAt |-> IF show THEN nowTick ELSE @.shownAt,
                             at |-> nowTick, shown |-> show ]]
  /\ UNCHANGED << scanVars, configVars, logVars, stopVars, hungVars, cpuVars, reloadVars >>

AuxOff == WorkerOff /\ HungOff /\ CpuOff /\ ReloadOff /\ WarnOff

InitScan(E) ==
  /\ history = << >>
  /\ cfg \in E.configs
  /\ systemResumed = 0
  /\ monitorActive = 1
  /\ consecutiveSnapshotFailures = 0
  /\ backoff = NoBackoff
  /\ now = 1
  /\ pc = "loop"
  /\ queue = << >>
  /\ hungList = << >>
  /\ cur = NoCur
  /\ last = NoLast
  /\ enumerated = {}
  /\ lastScan = "none"
  /\ gone = {}
  /\ run = [p \in Pids |-> ZeroRun]
  /\ tick \in E.startTicks
  /\ balloonCooldown = << >>
  /\ lastBalloonCleanupTick = 0
  /\ allowedAt = {}

InitEnv(E) == InitScan(E) /\ ConfigLoaded /\ InitLog /\ AuxOff

\* ------------------------------------------------------------ actions
\* OnPowerResume (window thread): raise the resume flag.
OnPowerResume ==
  /\ UNCHANGED << configVars, logVars, auxVars >>
  /\ systemResumed = 0
  /\ systemResumed' = 1
  /\ UNCHANGED << history, cfg, monitorActive, consecutiveSnapshotFailures, backoff, now, pc,
                  queue, hungList, cur, last, enumerated, lastScan, gone, run >>
  /\ UNCHANGED notifyVars

\* WndProc, WM_COMMAND IDM_STOP: monitoring is switched off from the menu.
MenuStop ==
  /\ UNCHANGED << configVars, logVars, auxVars >>
  /\ monitorActive = 1
  /\ monitorActive' = 0
  /\ UNCHANGED << history, cfg, systemResumed, consecutiveSnapshotFailures, backoff, now, pc,
                  queue, hungList, cur, last, enumerated, lastScan, gone, run >>
  /\ UNCHANGED notifyVars

\* WndProc, WM_COMMAND IDM_START: monitoring is switched on again.
MenuStart ==
  /\ UNCHANGED << configVars, logVars, auxVars >>
  /\ monitorActive = 0
  /\ monitorActive' = 1
  /\ UNCHANGED << history, cfg, systemResumed, consecutiveSnapshotFailures, backoff, now, pc,
                  queue, hungList, cur, last, enumerated, lastScan, gone, run >>
  /\ UNCHANGED notifyVars

\* One iteration of MonitorThread up to the enumeration loop of ProcessSnapshot:
\* the reset after a resume, the cooldown sweep, the test of g.monitorActive
\* (no scan when it is 0), the hung list, the snapshot, the unseen marks.  A
\* failed snapshot ends the iteration (the wait passes).
MonitorIterate(E) ==
  /\ UNCHANGED << configVars, logVars, auxVars >>
  /\ pc = "loop"
  /\ now <= E.maxScans
  /\ LET h0 == IF systemResumed = 1 THEN ResetAllHistory(history) ELSE history
         c == PeriodicBalloonCleanup(balloonCooldown, lastBalloonCleanupTick, tick)
     IN  \E hs \in E.hungSets, d \in E.intervals,
            res \in IF monitorActive = 1 THEN E.snapshots ELSE {"inactive"} :
           /\ systemResumed' = 0
           /\ UNCHANGED monitorActive
           /\ balloonCooldown' = c.cache
           /\ lastBalloonCleanupTick' = c.lastCleanup
           /\ tick' = IF res = "ok" THEN tick ELSE tick + d
           /\ UNCHANGED allowedAt
           /\ cur' = NoCur
           /\ last' = NoLast
           /\ lastScan' = IF res = "ok" THEN "scanning" ELSE res
           /\ UNCHANGED << cfg, gone >>
           /\ IF res = "failed"
              THEN /\ consecutiveSnapshotFailures' = consecutiveSnapshotFailures + 1
                   /\ backoff' =
                        [ wait |-> BackoffWait(consecutiveSnapshotFailures + 1,
                                               cfg.monitorIntervalMs),
                          log |-> SnapshotFailureLog(consecutiveSnapshotFailures + 1),
                          streak |-> backoff.streak + 1 ]
                   /\ history' = h0
                   /\ run' = RunAfterRemoval(run, h0)
                   /\ hungList' = << >>
                   /\ queue' = << >>
                   /\ pc' = "loop"
                   /\ now' = now + 1
                   /\ UNCHANGED enumerated
              ELSE IF res = "inactive"
              THEN /\ history' = h0
                   /\ run' = RunAfterRemoval(run, h0)
                   /\ hungList' = << >>
                   /\ queue' = << >>
                   /\ pc' = "loop"
                   /\ now' = now + 1
                   /\ UNCHANGED << consecutiveSnapshotFailures, backoff, enumerated >>
              ELSE IF res = "first_failed"
              THEN /\ history' = MarkAllUnseen(h0)
                   /\ run' = RunAfterRemoval(run, h0)
                   /\ hungList' = << >>
                   /\ queue' = << >>
                   /\ pc' = "loop"
                   /\ now' = now + 1
                   /\ backoff' = SucceededBackoff
                   /\ UNCHANGED << consecutiveSnapshotFailures, enumerated >>
              ELSE \E snap \in (SUBSET E.pids) \ {{}} :
                   /\ history' = MarkAllUnseen(h0)
                   /\ run' = RunAfterRemoval(run, h0)
                   /\ hungList' = Ascending(hs)
                   /\ queue' = Ascending(snap)
                   /\ enumerated' = snap
                   /\ pc' = "scan"
                   /\ backoff' = SucceededBackoff
                   /\ UNCHANGED << consecutiveSnapshotFailures, now >>

\* CheckProcess for the next entry of the snapshot, up to the dispatch.
CheckProcess(E) ==
  /\ UNCHANGED << configVars, logVars, auxVars >>
  /\ pc = "scan"
  /\ queue # << >>
  /\ \E image \in E.images :
       LET pid == Head(queue)
           name == image[1]
           path == image[2]
           route == Route(pid, name, path, cfg)
       IN  /\ cur' = [pid |-> pid, name |-> name, path |-> path, route |-> route]
           /\ last' = NoLast
           /\ IF route \in {"self", "excluded"}
              THEN /\ pc' = "scan"
                   /\ queue' = Tail(queue)
              ELSE /\ pc' = "dispatch"
                   /\ UNCHANGED queue
  /\ UNCHANGED << history, cfg, systemResumed, monitorActive,
                  consecutiveSnapshotFailures, backoff, now, hungList, enumerated, lastScan,
                  gone, run >>
  /\ UNCHANGED notifyVars

\* What FindOrCreateHistory's allocation and process query may return; nothing
\* is asked when the entry exists.
CreateAnswers(E, exists) ==
  IF exists
  THEN { [mallocOk |-> TRUE, createTimesOk |-> FALSE, createKernel |-> 0, createUser |-> 0] }
  ELSE { [mallocOk |-> m, createTimesOk |-> FALSE, createKernel |-> 0, createUser |-> 0] :
           m \in {x \in E.mallocs : ~x \/ FALSE \in E.timesOks} }
       \cup { [mallocOk |-> TRUE, createTimesOk |-> TRUE, createKernel |-> t[1],
               createUser |-> t[2]] : t \in {x \in E.times : TRUE \in E.mallocs /\ TRUE \in E.timesOks} }

\* What the queries on the opened process may return.
MeasureAnswers(E, opened) ==
  IF ~opened
  THEN { [queryOpen |-> FALSE, timesOk |-> FALSE, ftKernel |-> 0, ftUser |-> 0,
          memOk |-> FALSE, workingSetSize |-> 0] }
  ELSE { [queryOpen |-> TRUE, timesOk |-> t[1], ftKernel |-> t[2], ftUser |-> t[3],
          memOk |-> w[1], workingSetSize |-> w[2]] :
           t \in { <<FALSE, 0, 0>> : x \in {y \in E.timesOks : ~y} }
                 \cup { <<TRUE, x[1], x[2]>> : x \in {y \in E.times : TRUE \in E.timesOks} },
           w \in { <<FALSE, 0>> : x \in {y \in E.memOks : ~y} }
                 \cup { <<TRUE, x>> : x \in {y \in E.workingSets : TRUE \in E.memOks} } }

QueryAnswers(E, exists) ==
  { c @@ m : c \in CreateAnswers(E, exists),
             m \in UNION { MeasureAnswers(E, o) : o \in E.queryOpens } }

\* What an evaluation with result r did to the history table and its entries,
\* in order.  what: "entry" (fields of an entry, or the list) or "query" (a
\* call that asks the system about the process); csHistory: the calling
\* thread held g.csHistory.
HistoryAccesses(r, q) ==
  LET called == r.kind # "system" \/ (~r.hung /\ q.queryOpen)
      find == IF called
              THEN << [op |-> "FindOrCreateHistory", what |-> "entry", csHistory |-> TRUE] >>
              ELSE << >>
      create == IF r.created
                THEN << [op |-> "FindOrCreateHistory", what |-> "query",
                         csHistory |-> TRUE] >>
                ELSE << >>
      measured == r.kind \in {"resource", "system"} /\ r.found # << >> /\ q.queryOpen
      calc == IF measured
              THEN << [op |-> "CalcCpuUsage", what |-> "query", csHistory |-> FALSE] >>
                   \o (IF q.timesOk
                       THEN << [op |-> "CalcCpuUsage", what |-> "entry",
                                csHistory |-> FALSE] >>
                       ELSE << >>)
              ELSE << >>
      counters == IF r.kind = "resource" \/ (r.kind = "hang" /\ r.found # << >>)
                  THEN << [op |-> "terminate counters", what |-> "entry",
                           csHistory |-> FALSE] >>
                  ELSE << >>
      remove == IF r.attempted /\ r.outcome = "terminated"
                THEN << [op |-> "RemoveHistory", what |-> "entry", csHistory |-> TRUE] >>
                ELSE << >>
  IN  find \o create \o calc \o counters \o remove

LastOf(r, q, pid, route) ==
  [ pid |-> pid, route |-> route, kind |-> r.kind, found |-> r.found, created |-> r.created,
    cpu |-> r.cpu, memValid |-> r.memValid, memMB |-> r.memMB, hung |-> r.hung,
    reason |-> r.reason, attempted |-> r.attempted, outcome |-> r.outcome,
    stale |-> r.stale, log |-> r.log,
    wasGone |-> (r.found # << >> /\ pid \in gone), queryOpen |-> q.queryOpen,
    cpuValid |-> (q.queryOpen /\ q.timesOk), notify |-> NoNotify ]

\* CheckNormalProcess for the dispatched entry.
CheckNormalProcessStep(E) ==
  /\ UNCHANGED << configVars, logVars, auxVars >>
  /\ pc = "dispatch"
  /\ cur.route = "normal"
  /\ \E a \in QueryAnswers(E, HasHistory(history, cur.pid)), o \in E.outcomes :
       LET q == a @@ [outcome |-> o]
           r == CheckNormalProcess(history, cur.pid, cfg, hungList, q, now)
       IN  /\ history' = r.history
           /\ last' = LastOf(r, q, cur.pid, "normal")
           /\ gone' = IF r.found # << >> THEN gone \ {cur.pid} ELSE gone
           /\ run' = [run EXCEPT ![cur.pid] = RunAfterCheck(run[cur.pid], r, cur.pid)]
  /\ cur' = NoCur
  /\ pc' = "scan"
  /\ queue' = Tail(queue)
  /\ UNCHANGED << cfg, systemResumed, monitorActive, consecutiveSnapshotFailures, backoff,
                  now, hungList, enumerated, lastScan >>
  /\ UNCHANGED notifyVars

\* CheckSystemProcess for the dispatched entry: the evaluation, and for a
\* suspicious process the request to ShouldShowBalloonForProcess (the balloon
\* is shown if it answers allow) before the log event.
CheckSystemProcessStep(E) ==
  /\ UNCHANGED << configVars, logVars, auxVars >>
  /\ pc = "dispatch"
  /\ cur.route = "system"
  /\ \E a \in QueryAnswers(E, HasHistory(history, cur.pid)), v \in E.avgs,
        m \in E.balloonMallocs :
       LET q == a @@ [avgTimesOk |-> v[1], avgTotal |-> v[2], avgAge |-> v[3]]
           r == CheckSystemProcess(history, cur.pid, cfg, hungList, q, now)
           b == ShouldShowBalloonForProcess(balloonCooldown, cur.name, tick, m)
           n == [ asked |-> TRUE, name |-> cur.name, allow |-> b.allow,
                  prevAllowed |-> AllowedTick(allowedAt, cur.name),
                  recBefore |-> CacheTick(balloonCooldown, cur.name),
                  recAfter |-> CacheTick(b.cache, cur.name) ]
       IN  /\ history' = r.history
           /\ IF r.reason # ""
              THEN /\ balloonCooldown' = b.cache
                   /\ allowedAt' = IF b.allow
                                   THEN { e \in allowedAt : e[1] # ToLower(cur.name) }
                                          \cup { <<ToLower(cur.name), tick>> }
                                   ELSE allowedAt
                   /\ last' = [LastOf(r, q, cur.pid, "system") EXCEPT !.notify = n]
              ELSE /\ UNCHANGED << balloonCooldown, allowedAt >>
                   /\ last' = LastOf(r, q, cur.pid, "system")
           /\ UNCHANGED << tick, lastBalloonCleanupTick >>
           /\ gone' = IF r.found # << >> THEN gone \ {cur.pid} ELSE gone
           /\ run' = [run EXCEPT ![cur.pid] = RunAfterCheck(run[cur.pid], r, cur.pid)]
  /\ cur' = NoCur
  /\ pc' = "scan"
  /\ queue' = Tail(queue)
  /\ UNCHANGED << cfg, systemResumed, monitorActive, consecutiveSnapshotFailures, backoff,
                  now, hungList, enumerated, lastScan >>

\* The end of ProcessSnapshot after the enumeration loop: the sweep; then the
\* interval wait of MonitorThread.
ScanEnd(E) ==
  /\ UNCHANGED << configVars, logVars, auxVars >>
  /\ pc = "scan"
  /\ \E d \in E.intervals : tick' = tick + d
  /\ queue = << >>
  /\ history' = CleanupHistory(history)
  /\ run' = RunAfterRemoval(run, history')
  /\ gone' = gone \cup { history[i].pid : i \in { j \in 1..Len(history) : ~history[j].seen } }
  /\ lastScan' = "swept"
  /\ hungList' = << >>
  /\ cur' = NoCur
  /\ last' = NoLast
  /\ pc' = "loop"
  /\ now' = now + 1
  /\ UNCHANGED << cfg, systemResumed, monitorActive, consecutiveSnapshotFailures, backoff,
                  queue, enumerated >>
  /\ UNCHANGED << balloonCooldown, lastBalloonCleanupTick, allowedAt >>

Init == InitEnv(FullEnv)
Next ==
  \/ OnPowerResume
  \/ MonitorIterate(FullEnv)
  \/ CheckProcess(FullEnv)
  \/ CheckNormalProcessStep(FullEnv)
  \/ CheckSystemProcessStep(FullEnv)
  \/ ScanEnd(FullEnv)
Spec == Init /\ [][Next]_vars

InitRetry == InitEnv(RetryEnv)
NextRetry ==
  \/ MonitorIterate(RetryEnv)
  \/ CheckProcess(RetryEnv)
  \/ CheckNormalProcessStep(RetryEnv)
  \/ ScanEnd(RetryEnv)
SpecRetry == InitRetry /\ [][NextRetry]_vars

InitRoute == InitEnv(RouteEnv)
NextRoute ==
  \/ MonitorIterate(RouteEnv)
  \/ CheckProcess(RouteEnv)
  \/ CheckNormalProcessStep(RouteEnv)
  \/ CheckSystemProcessStep(RouteEnv)
  \/ ScanEnd(RouteEnv)
SpecRoute == InitRoute /\ [][NextRoute]_vars

InitNotify == InitEnv(NotifyEnv)
NextNotify ==
  \/ MonitorIterate(NotifyEnv)
  \/ CheckProcess(NotifyEnv)
  \/ CheckSystemProcessStep(NotifyEnv)
  \/ ScanEnd(NotifyEnv)
SpecNotify == InitNotify /\ [][NextNotify]_vars

InitTable == InitEnv(TableEnv)
NextTable ==
  \/ OnPowerResume
  \/ MonitorIterate(TableEnv)
  \/ CheckProcess(TableEnv)
  \/ CheckNormalProcessStep(TableEnv)
  \/ CheckSystemProcessStep(TableEnv)
  \/ ScanEnd(TableEnv)
SpecTable == InitTable /\ [][NextTable]_vars

InitWarnings ==
  InitScan(NotifyEnv) /\ ConfigLoaded /\ InitLog
  /\ WorkerOff /\ HungOff /\ CpuOff /\ ReloadOff /\ InitWarn
NextWarn ==
  \/ WarningOccurs
  \/ MenuStop
  \/ MenuStart
SpecWarn == InitWarnings /\ [][NextWarn]_vars

InitSweep == InitEnv(SweepEnv)
NextSweep ==
  \/ MonitorIterate(SweepEnv)
  \/ CheckProcess(SweepEnv)
  \/ CheckSystemProcessStep(SweepEnv)
  \/ ScanEnd(SweepEnv)
SpecSweep == InitSweep /\ [][NextSweep]_vars

InitMenu == InitEnv(RouteEnv)
NextMenu ==
  \/ MenuStop
  \/ MenuStart
  \/ MonitorIterate(RouteEnv)
  \/ CheckProcess(RouteEnv)
  \/ CheckNormalProcessStep(RouteEnv)
  \/ CheckSystemProcessStep(RouteEnv)
  \/ ScanEnd(RouteEnv)
SpecMenu == InitMenu /\ [][NextMenu]_vars

InitBackoff == InitEnv(BackoffEnv)
NextBackoff ==
  \/ MonitorIterate(BackoffEnv)
  \/ CheckProcess(BackoffEnv)
  \/ CheckNormalProcessStep(BackoffEnv)
  \/ ScanEnd(BackoffEnv)
SpecBackoff == InitBackoff /\ [][NextBackoff]_vars

InitStop == InitScan(NotifyEnv) /\ ConfigLoaded /\ InitLog
  /\ InitWorker /\ HungOff /\ CpuOff /\ ReloadOff /\ WarnOff
NextStop ==
  \/ CleanupClearRunning
  \/ CleanupSetEvent
  \/ WorkerLoopTop
  \/ WorkerRotate
  \/ WorkerRename
  \/ WorkerSleepEnds
  \/ CleanupWaitThread
  \/ CleanupRelease
  \/ WorkerEnumWindow
  \/ WorkerSnapshot
  \/ WorkerBackoffStep
  \/ WorkerScan
  \/ WorkerIntervalWait
SpecStop == InitStop /\ [][NextStop]_vars
FairStop == SpecStop /\ WF_vars(NextStop)

InitHungScan == InitScan(NotifyEnv) /\ ConfigLoaded /\ InitLog
  /\ WorkerOff /\ InitHung /\ CpuOff /\ ReloadOff /\ WarnOff
NextHung ==
  \/ BuildHungProcessList
  \/ EnumWindowsStep
  \/ CleanupClearRunning
  \/ CleanupSetEvent
SpecHung == InitHungScan /\ [][NextHung]_vars

InitCpuCalls == InitScan(NotifyEnv) /\ ConfigLoaded /\ InitLog
  /\ WorkerOff /\ HungOff /\ InitCpu /\ ReloadOff /\ WarnOff
NextCpu == CalcCpuUsageCall
SpecCpu == InitCpuCalls /\ [][NextCpu]_vars

NextReuse ==
  \/ CalcCpuUsageCall
  \/ PidReused
SpecReuse == InitCpuCalls /\ [][NextReuse]_vars

InitPoll ==
  InitScan(NotifyEnv) /\ ConfigLoaded /\ InitLog
  /\ WorkerOff /\ HungOff /\ CpuOff /\ InitReload /\ WarnOff
NextReload ==
  \/ EditConfigFile
  \/ PollCheck
  \/ PollUnchanged
  \/ PollLoad
  \/ UpdateConfigLastWrite
SpecReload == InitPoll /\ [][NextReload]_vars
\* The monitor thread keeps running: a poll, load or update that can be made
\* is made.
FairReload ==
  /\ SpecReload
  /\ WF_vars(PollCheck) /\ WF_vars(PollUnchanged)
  /\ WF_vars(PollLoad) /\ WF_vars(UpdateConfigLastWrite)

InitClamp == InitScan(NotifyEnv) /\ InitConfig(ClampEnv) /\ InitLog /\ AuxOff
NextClamp ==
  \/ StartupLoad(ClampEnv)
  \/ HandleConfigReload(ClampEnv)
  \/ StoreEnter
  \/ StoreStruct(ClampEnv)
  \/ StoreCount
  \/ StoreList
  \/ StoreLeave
  \/ CopyConfig
SpecClamp == InitClamp /\ [][NextClamp]_vars

InitExclude == InitScan(NotifyEnv) /\ InitConfig(ExcludeEnv) /\ InitLog /\ AuxOff
NextExclude ==
  \/ StartupLoad(ExcludeEnv)
  \/ HandleConfigReload(ExcludeEnv)
  \/ StoreEnter
  \/ StoreStruct(ExcludeEnv)
  \/ StoreCount
  \/ StoreList
  \/ StoreLeave
  \/ CopyConfig
SpecExclude == InitExclude /\ [][NextExclude]_vars

InitConfigReload == InitScan(NotifyEnv) /\ InitConfig(ConfigEnv) /\ InitLog /\ AuxOff
NextConfig ==
  \/ StartupLoad(ConfigEnv)
  \/ HandleConfigReload(ConfigEnv)
  \/ StoreEnter
  \/ StoreStruct(ConfigEnv)
  \/ StoreCount
  \/ StoreList
  \/ StoreLeave
  \/ CopyConfig
SpecConfig == InitConfigReload /\ [][NextConfig]_vars

InitRotate == InitScan(NotifyEnv) /\ ConfigLoaded /\ InitLog /\ AuxOff
NextLog ==
  \/ WriteEntry
  \/ UiLog
  \/ ExternalOpen
  \/ ExternalClose
  \/ RotateBegin
  \/ RenameToTemp
  \/ RenameToOld
  \/ RenameBack
  \/ RotateUnlock
  \/ LogRotationLine
  \/ TruncateFallback
  \/ RotateReopen
  \/ Cleanup
SpecLog == InitRotate /\ [][NextLog]_vars

\* ------------------------------------------------------------ properties
HistoryOf(pid) == history[FindHistory(history, pid)]
OnAllowlist(name) == \E i \in 1..Len(systemNames) : ToLower(name) = ToLower(systemNames[i])
UnderTrustedDirectory(path) ==
  \E d \in {sysDir32, sysDir64, sysDirDrivers} :
    /\ Len(path) >= Len(d)
    /\ \A i \in 1..Len(d) : ToLower(path[i]) = ToLower(d[i])
TerminationLines ==
  { "Failed to open process", "Successfully terminated process", "Failed to terminate process" }

\* C1: a process routed to the system-process path is never the target of a
\* termination attempt: after its evaluation no attempt was made (the process
\* was neither opened for termination nor terminated), whatever the
\* thresholds and its CPU, memory or hang state.
C1_SystemNeverTerminated ==
  last.route = "system" =>
    /\ ~last.attempted
    /\ last.outcome = "none"
    /\ \A i \in 1..Len(last.log) : last.log[i] \notin TerminationLines
C1_Witness ==
  /\ last.route = "system"
  /\ last.reason = "High memory"
  /\ cfg = MinConfig

\* C2: a process is routed to the system-process path only if its
\* name is on the allowlist and its path lies under a trusted system directory;
\* an allowlisted name without such a path goes on to the exclusion check and
\* the normal path.
C2_Original ==
  cur.route # "none" =>
    /\ cur.route = "system" => OnAllowlist(cur.name) /\ UnderTrustedDirectory(cur.path)
    /\ (cur.pid # SelfPid /\ OnAllowlist(cur.name) /\ ~UnderTrustedDirectory(cur.path))
         => cur.route \in {"excluded", "normal"}

\* C3: once a counter has reached TERMINATE_RETRY_LIMIT no further attempt of
\* that breach type is made until the counter is reset, and the exhaustion line
\* is written exactly once for that run of failed attempts.
C3_RetryCeiling ==
  /\ (last.attempted /\ last.kind = "resource" /\ last.found # << >>)
       => last.found[1].terminateAttempts < TERMINATE_RETRY_LIMIT
  /\ (last.attempted /\ last.kind = "hang" /\ last.found # << >>)
       => last.found[1].terminateAttemptsHung < TERMINATE_RETRY_LIMIT
  /\ \A i \in 1..Len(history) :
       /\ run[history[i].pid].resLogs <= 1
       /\ run[history[i].pid].hangLogs <= 1
       /\ history[i].terminateAttempts >= TERMINATE_RETRY_LIMIT
            => run[history[i].pid].resLogs = 1
       /\ history[i].terminateAttemptsHung >= TERMINATE_RETRY_LIMIT
            => run[history[i].pid].hangLogs = 1

\* C4: for a process that stays abnormal and whose termination fails every
\* time, the failed attempts made since the relevant counter was last reset
\* number at most TERMINATE_RETRY_LIMIT.
C4_AttemptsBounded ==
  \A p \in DOMAIN run :
    /\ run[p].resTries <= TERMINATE_RETRY_LIMIT
    /\ run[p].hangTries <= TERMINATE_RETRY_LIMIT

\* C5: an attempt whose reason is a hang leaves the resource counter as it was,
\* an attempt whose reason is a CPU or memory breach leaves the hang counter as
\* it was.
C5_IndependentCounters ==
  (last.route = "normal" /\ last.attempted /\ last.found # << >>
     /\ HasHistory(history, last.pid)) =>
    /\ last.reason = "Window not responding"
         => HistoryOf(last.pid).terminateAttempts = last.found[1].terminateAttempts
    /\ last.reason \in {"High CPU", "High memory"}
         => HistoryOf(last.pid).terminateAttemptsHung = last.found[1].terminateAttemptsHung

\* C6: after the evaluation of a normal-path process with no reason (CPU and
\* memory measured and within thresholds, not hung) both retry counters are 0.
C6_BothCountersReset ==
  (last.route = "normal" /\ last.kind = "resource" /\ last.cpuValid /\ last.memValid
     /\ last.reason = "") =>
    /\ HistoryOf(last.pid).terminateAttempts = 0
    /\ HistoryOf(last.pid).terminateAttemptsHung = 0

\* C7: the normal-path reason is high CPU if cpu > CPU threshold; else high
\* memory if memory is available and memMB > memory threshold; else hung if the
\* pid is in the hung set; else none.  Equality with a threshold is no breach
\* and an unavailable reading yields no threshold reason.
C7_ReasonSelection ==
  last.route = "normal" =>
    LET cpuOver == last.kind = "resource"
                   /\ last.cpu.num > cfg.cpuThresholdPercent * last.cpu.den
        memOver == last.kind = "resource" /\ last.memValid
                   /\ last.memMB > cfg.memThresholdMb
    IN  /\ last.reason = "High CPU" <=> cpuOver
        /\ last.reason = "High memory" <=> (~cpuOver /\ memOver)
        /\ last.reason = "Window not responding" <=> (~cpuOver /\ ~memOver /\ last.hung)
        /\ last.reason = "" <=> (~cpuOver /\ ~memOver /\ ~last.hung)
        /\ ~last.cpuValid => last.reason # "High CPU"
        /\ ~last.memValid => last.reason # "High memory"
C7_Witness ==
  /\ last.route = "normal"
  /\ last.kind = "resource"
  /\ last.cpuValid
  /\ last.cpu.num = cfg.cpuThresholdPercent * last.cpu.den
  /\ last.memValid
  /\ last.memMB = cfg.memThresholdMb
  /\ last.hung
  /\ last.reason = "Window not responding"

\* C8: when a termination attempt on a normal-path process succeeds, the
\* history table holds no entry for that pid when the evaluation returns, and
\* the freed entry is not read or written afterwards.
C8_TerminatedEntryRemoved ==
  (last.route = "normal" /\ last.outcome = "terminated") =>
    /\ ~HasHistory(history, last.pid)
    /\ ~last.stale
C8_Witness ==
  /\ last.route = "normal"
  /\ last.outcome = "terminated"
  /\ last.kind = "hang"
  /\ last.found # << >>
  /\ last.found[1].terminateAttemptsHung > 0

C10_UniquePid ==
  \A i, j \in 1..Len(history) : i # j => history[i].pid # history[j].pid
C10_Witness ==
  /\ Len(history) = 2
  /\ lastScan = "swept"
  /\ now = 3

\* C11: for a fixed process name the first request is answered allow and its
\* time is recorded; a request less than the cooldown window after the last
\* allowed request is answered deny and leaves the recorded time unchanged; a
\* request at or beyond the window is answered allow and refreshes the time.
C11_Cooldown ==
  last.notify.asked =>
    LET n == last.notify
        gap == tick - n.prevAllowed
    IN  /\ n.prevAllowed = -1 => (n.allow /\ n.recAfter = tick)
        /\ (n.prevAllowed # -1 /\ gap < SUSPICIOUS_BALLOON_COOLDOWN_MS)
             => (~n.allow /\ n.recAfter = n.recBefore /\ n.recAfter = n.prevAllowed)
        /\ (n.prevAllowed # -1 /\ gap >= SUSPICIOUS_BALLOON_COOLDOWN_MS)
             => (n.allow /\ n.recAfter = tick)

\* C12: the cooldown cache holds at most one entry per process name, names
\* compared case-insensitively, whatever requests and sweeps have run.
C12_UniqueName ==
  \A i, j \in 1..Len(balloonCooldown) :
    i # j => ToLower(balloonCooldown[i].processName) # ToLower(balloonCooldown[j].processName)
C12_Witness ==
  /\ last.notify.asked
  /\ last.notify.name = "SVCHOST.EXE"
  /\ last.notify.recBefore # -1
  /\ Len(balloonCooldown) = 1
  /\ balloonCooldown[1].processName = "svchost.exe"
  /\ lastBalloonCleanupTick > 0

\* C13: every evaluation that finds a system-path process suspicious writes
\* the suspicious log event, whether or not the alert is suppressed; and two
\* alerts for one process name are at least a cooldown window apart.
C13_LoggedAndOneAlert ==
  /\ (last.route = "system" /\ last.reason # "")
       => \E i \in 1..Len(last.log) : last.log[i] = "SUSPICIOUS SYSTEM PROCESS"
  /\ (last.notify.asked /\ last.notify.allow /\ last.notify.prevAllowed # -1)
       => tick - last.notify.prevAllowed >= SUSPICIOUS_BALLOON_COOLDOWN_MS

\* The value of a numeric key of config.ini as written in the file (the
\* default for an absent key), and the nearest value of the field's range.
FileValue(f) == IF f \in DOMAIN configFile THEN configFile[f] ELSE FieldDefault[f]
Nearest(f, v) == IF v < FieldMin[f] THEN FieldMin[f] ELSE IF v > FieldMax[f] THEN FieldMax[f] ELSE v
LoadedFromFile == loadPc = "enter" /\ ~newConfig.builtIn

\* C14: for each numeric field and every value in the file, the loaded value
\* is the field's minimum if the value is below it, the maximum if it is
\* above it and the value itself otherwise, and a clamp line for the field is
\* logged exactly when the value was changed.
C14_ClampNearest ==
  LoadedFromFile =>
    \A f \in DOMAIN FieldMin :
      /\ newConfig.numeric[f] = Dword(Nearest(f, FileValue(f)))
      /\ (\E l \in newConfig.clampLog : l.field = f) <=> (Nearest(f, FileValue(f)) # FileValue(f))

InRange(c) ==
  \A f \in DOMAIN FieldMin :
    /\ ~DwordLess(c.numeric[f], Dword(FieldMin[f]))
    /\ ~DwordLess(Dword(FieldMax[f]), c.numeric[f])

\* C15: every configuration the worker copies at the start of an iteration is
\* the settings of one single load (or the built-in defaults), exclusion list
\* and count included, and each of its numeric fields lies within its range.
C15_ConsistentSnapshot ==
  localConfig # ZeroConfig =>
    /\ Settings(localConfig) \in loadedConfigs
    /\ InRange(localConfig)
\* The worker copied the configuration of a reload that replaced both the
\* numeric fields and the exclusion list of the load before, the store
\* having passed through junk in the count and the list.
C15_Witness ==
  /\ loadPc = "poll"
  /\ loads = MaxLoads
  /\ Cardinality(loadedConfigs) >= 3
  /\ Settings(localConfig) = Settings(newConfig)
  /\ localConfig.excludeCount = 2
  /\ localConfig.excludeList = << << "c" >>, << "e" >> >>
  /\ localConfig.numeric.memThresholdMb = Dword(MAX_MEM_THRESHOLD_MB)
  /\ \E c \in loadedConfigs : c.excludeList = << << "a" >>, << "b" >> >>

\* The tokens of an exclusion string: the pieces between separators, blanks
\* at both ends removed.
RECURSIVE Pieces(_)
Pieces(s) ==
  LET q == SkipToken(s, 1)
  IN  IF q > Len(s) THEN << s >>
      ELSE << SubSeq(s, 1, q - 1) >> \o Pieces(SubSeq(s, q + 1, Len(s)))
Trim(s) ==
  LET first == SkipChars(s, 1, Blanks)
  IN  IF first > Len(s) THEN << >> ELSE SubSeq(s, first, TrimEnd(s, first, Len(s)))
Tokens(s) == [ i \in 1..Len(Pieces(s)) |-> Trim(Pieces(s)[i]) ]
Invalid(t) == Contains(t, Wildcards \cup PathSeparators)
\* An entry of the list holds at most MAX_PATH_LEN - 1 characters.
Fits(t) == SubSeq(t, 1, Min(Len(t), MAX_PATH_LEN - 1))
Kept(s) == SelectSeq(Tokens(s), LAMBDA t : t # << >> /\ ~Invalid(t))

\* C16: from any exclusion string, every token with a path separator or a
\* wildcard is left out of the loaded list with a logged warning, every
\* other non-empty token is kept in input order (an invalid token drops no
\* later valid one), and the list holds at most MAX_EXCLUDE_COUNT entries.
C16_ExcludeFilter ==
  (LoadedFromFile /\ newConfig.split) =>
    LET s == configFile.excludeProcesses
        kept == Kept(s)
        log == newConfig.excludeLog
    IN  /\ newConfig.excludeCount <= MAX_EXCLUDE_COUNT
        /\ newConfig.excludeList =
             [ i \in 1..Min(Len(kept), MAX_EXCLUDE_COUNT) |-> Fits(kept[i]) ]
        /\ \A i \in 1..Len(Tokens(s)) :
             Invalid(Tokens(s)[i]) =>
               \E j \in 1..Len(log) :
                 \/ log[j].warning = "list truncated"
                 \/ /\ log[j].warning \in {"wildcard", "path separator"}
                    /\ log[j].token = Fits(Tokens(s)[i])

\* The last rotation that found the log oversized has returned, the monitor
\* still running.
RotationReturned == rotation.found /\ rotation.returned /\ programRunning
IsPrefix(s, t) == Len(s) <= Len(t) /\ SubSeq(t, 1, Len(s)) = s
\* The three outcomes of a rotation, each with its line in the log.
RotatedToBackup ==
  /\ rotation.renamed
  /\ files.old.exists /\ files.old.lines = rotation.detected
  /\ "rotated" \in rotation.said
TruncatedInPlace == rotation.truncated /\ "truncated" \in rotation.said
LeftUnchanged ==
  /\ ~rotation.renamed /\ ~rotation.truncated
  /\ files.log.exists /\ IsPrefix(rotation.detected, files.log.lines)
  /\ rotation.said \cap {"warning", "error"} # {}

\* C17: each time rotation finds the log over the cap, exactly one of three
\* outcomes occurs and is logged: rotated to the backup, truncated in place,
\* or left unchanged with a warning or error logged.
C17_OneOutcomeLogged ==
  RotationReturned =>
    Cardinality({ o \in {"rotated", "truncated", "unchanged"} :
                    \/ o = "rotated" /\ RotatedToBackup
                    \/ o = "truncated" /\ TruncatedInPlace
                    \/ o = "unchanged" /\ LeftUnchanged }) = 1

\* C18: when all LOG_RENAME_RETRY_LIMIT rename attempts fail on a log file
\* held against renaming, the fallback truncates the log to zero length,
\* 'truncated successfully' is logged, and logging continues into the
\* emptied file.
C18_TruncateFallback ==
  (RotationReturned /\ rotation.lockedTries = LOG_RENAME_RETRY_LIMIT) =>
    /\ TruncatedInPlace
    /\ hLogFile
    /\ files.log.exists
    /\ \A i \in 1..Len(files.log.lines) : files.log.lines[i].epoch = epoch

\* C19: every operation on the log file or its handle, the fallback
\* truncation and the close at shutdown included, is executed while holding
\* csLog.
C19_AllUnderLock == unlockedOps = {}

\* C20: when the first rename attempt of a rotation succeeds, on return the
\* backup holds the previous log content, the live log holds only lines
\* written after the rotation, the first of them 'rotated successfully', and
\* the log handle is open.
C20_FirstTryRotation ==
  (RotationReturned /\ rotation.firstTry) =>
    /\ files.old.exists /\ files.old.lines = rotation.detected
    /\ files.log.exists /\ files.log.lines # << >>
    /\ files.log.lines[1].text = "rotated"
    /\ \A i \in 1..Len(files.log.lines) : files.log.lines[i].epoch = epoch
    /\ hLogFile


\* C21: after the n-th consecutive failed process enumeration the backoff
\* wait is min(interval * 2^(n-1), MAX_BACKOFF_WAIT_MS); the first failure
\* is logged; the cumulative warning is logged on the fourth consecutive
\* failure and not on the second or third.
C21_BackoffAndWarnings ==
  lastScan = "failed" =>
    LET n == backoff.streak
        lines == { backoff.log[i] : i \in 1..Len(backoff.log) }
    IN  /\ backoff.wait = Min(cfg.monitorIntervalMs * 2^(n - 1), MAX_BACKOFF_WAIT_MS)
        /\ n = 1 => "CreateToolhelp32Snapshot failed" \in lines
        /\ n \in {2, 3} => "Snapshot has failed consecutively" \notin lines
        /\ n = 4 => "Snapshot has failed consecutively" \in lines

\* C22: once shutdown is requested (programRunning cleared and the stop
\* event set) no step of the monitor loop blocks for longer than one polling
\* step, and the monitor thread goes on to exit.
C22_NoLongBlockAfterStop == blocked <= BACKOFF_STEP_MS
C22_WorkerExits == StopSignalled ~> wpc = "exited"

\* C23: in one scan the hung-window detector probes at most maxHungWindows
\* windows, logs the cap warning at most once, and lists each process ID at
\* most once.
C23_ProbesCapped ==
  /\ hProbes <= hParams.maxWindows
  /\ hCapWarnings <= 1
  /\ \A i, j \in 1..Len(hParams.head) : hParams.head[i] = hParams.head[j] => i = j

\* C24: a normal-path process that cannot be opened for querying, or for
\* which no history entry could be allocated, is evaluated for hang state
\* only: a termination attempt is made exactly if its pid is in the hung set
\* and the hang counter is below the ceiling, and no CPU or memory
\* measurement or threshold decision is made.
HangAttemptsBefore == IF last.found = << >> THEN 0 ELSE last.found[1].terminateAttemptsHung
C24_HangOnlyEvaluation ==
  (last.route = "normal" /\ (last.found = << >> \/ ~last.queryOpen)) =>
    /\ last.kind = "hang"
    /\ last.attempted = (last.hung /\ HangAttemptsBefore < TERMINATE_RETRY_LIMIT)
    /\ last.reason \in {"", "Window not responding"}
    /\ last.cpu = Rat(0, 1) /\ ~last.memValid /\ last.memMB = 0
    /\ \A i \in 1..Len(history) :
         (last.found # << >> /\ history[i].pid = last.pid) =>
           /\ history[i].ftKernel = last.found[1].ftKernel
           /\ history[i].ftUser = last.found[1].ftUser
           /\ history[i].perfTime = last.found[1].perfTime
           /\ history[i].terminateAttempts = last.found[1].terminateAttempts
C24_Witness ==
  /\ last.route = "normal"
  /\ last.found # << >>
  /\ ~last.queryOpen
  /\ last.hung
  /\ ~last.attempted
  /\ HangAttemptsBefore = TERMINATE_RETRY_LIMIT
C24_WitnessNoEntry ==
  /\ last.route = "normal"
  /\ last.found = << >>
  /\ last.hung
  /\ last.attempted

\* C25: for a process present in consecutive scans CalcCpuUsage returns the
\* sentinel -1 exactly when the process times cannot be read, 0 when the
\* elapsed time since the baseline is <= 0, and otherwise the CPU time
\* consumed since the baseline over the elapsed time, in percent; the value
\* is never negative when the times were read.
Consumed == (cSample.ftKernel + cSample.ftUser) - (cBefore.ftKernel + cBefore.ftUser)
Elapsed == cSample.nowPerf - cBefore.perfTime
C25_CpuUsageDefined ==
  cCalls > 0 =>
    /\ cResult.den > 0
    /\ (cResult = Rat(-1, 1)) = ~cSample.timesOk
    /\ cSample.timesOk => cResult.num >= 0
    /\ (cSample.timesOk /\ Elapsed <= 0) => cResult.num = 0
    /\ (cSample.timesOk /\ Elapsed > 0) =>
         IF Consumed = 0 THEN cResult.num = 0
         ELSE cResult = Rat(Consumed * PerfFreq, 100000 * Elapsed)
C25_Witness ==
  /\ cCalls > 1
  /\ cSample.timesOk
  /\ Elapsed > 0
  /\ Consumed > 0
  /\ cResult.num > 0

\* C26: every call of CalcCpuUsage that reads the process times replaces the
\* cached kernel time, user time and baseline by the values just sampled.
C26_BaselineAdvances ==
  (cCalls > 0 /\ cSample.timesOk) =>
    /\ cEntry.ftKernel = cSample.ftKernel
    /\ cEntry.ftUser = cSample.ftUser
    /\ cEntry.perfTime = cSample.nowPerf

\* C30: once config.ini is left unchanged, polling eventually makes the
\* active settings equal to the clamped contents of the file.
C30_EventuallyReloaded == <>[](rActive = LoadConfig(rFile.keys, 1).numeric)

\* C28: a process whose name matches the user exclusion list, whatever the
\* case of its letters, and that is not routed to the system path is skipped:
\* no history entry is created or changed, nothing is measured or logged and
\* no termination is attempted; the same holds for the monitor's own pid.
MatchesExclusionList(name) ==
  \E i \in 1..Len(cfg.excludeList) : ToLower(name) = ToLower(cfg.excludeList[i])
LastAccesses ==
  IF last.route = "none" THEN << >>
  ELSE HistoryAccesses(last, [queryOpen |-> last.queryOpen, timesOk |-> last.cpuValid])
C27_EntriesUnderLock ==
  \A i \in 1..Len(LastAccesses) :
    /\ LastAccesses[i].what = "entry" => LastAccesses[i].csHistory
    /\ LastAccesses[i].what = "query" => ~LastAccesses[i].csHistory

\* C29: after a resume signal no evaluation computes a CPU delta from a
\* baseline taken before the signal, whenever the signal is raised.
C29_NoStaleBaseline ==
  [][ (pc = "dispatch" /\ pc' = "scan" /\ systemResumed = 1) =>
        ~( /\ last'.kind \in {"resource", "system"}
           /\ last'.found # << >>
           /\ ~last'.created
           /\ last'.cpuValid ) ]_vars
\* C31: every termination attempt on a normal-path process, whatever its
\* reason (high CPU, high memory, hung window), is preceded by one structured
\* event (the LogEvent line with name, pid and reason): the line is the first
\* thing the evaluation logged, and it was logged once.
StructuredEvents ==
  { i \in 1..Len(last.log) : last.log[i] = LogEvent(FALSE, FALSE).log[1] }
C31_EventBeforeAttempt ==
  (last.route = "normal" /\ last.attempted) =>
    /\ StructuredEvents = {1}

\* C37: the 'Terminated process' event, and the 'Process Terminated' balloon
\* when notifyOnTermination is set, are emitted for a process only if the
\* attempt they report terminated it; a failed attempt produces neither.
LastBalloons ==
  IF StructuredEvents # {}
  THEN LogEvent(FALSE, cfg.notifyOnTermination).balloons
  ELSE << >>
C37_ReportedOnlyIfTerminated ==
  (last.route = "normal" /\ (StructuredEvents # {} \/ LastBalloons # << >>)) =>
    /\ last.attempted
    /\ last.outcome = "terminated"
\* C32: a successful process enumeration ends a failure streak: the first
\* failure after a success (or after the start) waits only the base interval
\* (capped), and the first success after failures logs 'Snapshot succeeded
\* after N failures'.
C32_SuccessEndsStreak ==
  [][ /\ (lastScan # "failed" /\ lastScan' = "failed") =>
           backoff'.wait = Min(cfg.monitorIntervalMs, MAX_BACKOFF_WAIT_MS)
      /\ (lastScan = "failed" /\ lastScan' = "scanning") =>
           backoff'.log = << "Snapshot succeeded after failures" >> ]_vars
\* C33: a CPU delta is computed only between two samples of the same
\* process: when a call of CalcCpuUsage reads the process times, the cached
\* times it subtracts are those of the process now holding the pid, so the
\* difference is not negative before it is taken as unsigned (no wrap).
C33_SameInstanceDelta ==
  [][ (cCalls' = cCalls + 1 /\ cSample'.timesOk) =>
        /\ cOwner = cInstance
        /\ cSample'.ftKernel >= cEntry.ftKernel
        /\ cSample'.ftUser >= cEntry.ftUser ]_vars
\* C34: at shutdown the shared state (history list, log handle, the four
\* locks) is freed, closed or destroyed only after the monitor thread has
\* exited: once Cleanup released it the worker uses none of it any more.
C34_ReleasedAfterExit == released => WorkerUses = {}
\* C35: from the start of a rotation until the fallback truncation has been
\* attempted the monitor's log handle stays closed; in particular it is
\* closed when the truncation opens the log file for writing.
C35_HandleClosedAtTruncation ==
  rotPc \in {"toTemp", "toOld", "back", "unlock", "warning", "truncate"} => ~hLogFile

\* C40: a rotation in which every rename attempt failed leaves the previous
\* backup file in place (a backup exists before every rotation here: the one
\* of the earlier run, or the one a successful rotation made).
C40_BackupKept ==
  (rotation.found /\ rotation.returned /\ ~rotation.renamed) => files.old.exists
\* C36: while monitoring is switched off from the menu no termination
\* attempt is made on any process, not even by a scan that was in progress
\* when it was switched off.
C36_NoAttemptWhileOff ==
  [][ (monitorActive = 0 /\ pc = "dispatch") => ~last'.attempted ]_vars
\* C38: the first occurrence in a run of each cooldown-gated global warning
\* raises a notification whatever the tick count is then; a later occurrence
\* is suppressed only within the cooldown after the last notification.
C38_FirstWarningShown ==
  \A w \in Warnings :
    warned[w].n > 0 =>
      /\ warned[w].first
      /\ ~warned[w].shown =>
            /\ warned[w].shownAt >= 0
            /\ warned[w].at - warned[w].shownAt < WarningCooldown[w]
\* C39: the cooldown sweep runs at most once per cleanup interval, and it
\* removes only entries for which ShouldShowBalloonForProcess would answer
\* allow anyway: for every name and every later request time the answer is
\* the same on the cache after the sweep as on the cache before it.
LaterTicks ==
  { tick + d : d \in { 0, 1, SUSPICIOUS_BALLOON_COOLDOWN_MS - 1, SUSPICIOUS_BALLOON_COOLDOWN_MS,
                       BALLOON_CLEANUP_INTERVAL_MS } }
C39_SweepTransparent ==
  [][ /\ lastBalloonCleanupTick' # lastBalloonCleanupTick =>
           /\ tick - lastBalloonCleanupTick >= BALLOON_CLEANUP_INTERVAL_MS
           /\ lastBalloonCleanupTick' = tick
      /\ pc = "loop" =>
           \A name \in NameSamples \cup {"LSASS.EXE", "lsass.exe"}, t \in LaterTicks,
              m \in BOOLEAN :
             ShouldShowBalloonForProcess(balloonCooldown', name, t, m).allow
               = ShouldShowBalloonForProcess(balloonCooldown, name, t, m).allow ]_vars
\* A sweep has run after two names were recorded: it removed the entry of
\* one and kept the entry of the other, which is younger than the cooldown.
C39_Witness ==
  /\ pc = "scan"
  /\ lastBalloonCleanupTick = tick
  /\ \E a, b \in allowedAt :
       /\ FindCooldown(balloonCooldown, a[1]) = 0
       /\ FindCooldown(balloonCooldown, b[1]) # 0
       /\ tick - b[2] < SUSPICIOUS_BALLOON_COOLDOWN_MS
       /\ tick - a[2] > SUSPICIOUS_BALLOON_COOLDOWN_MS
====
